---- MODULE Spec2Model ----
(***************************************************************************)
(* A model of the SP1 RISC-V runtime (core/src/runtime/mod.rs): the        *)
(* timestamped memory primitives mr/mw, their CPU-facing wrappers, the     *)
(* instruction interpreter, the run loop with its shard rollover, the      *)
(* unconstrained journal and the postprocessor.                            *)
(*                                                                         *)
(* A u32 is a tuple of four bytes, least significant first (the layout of  *)
(* u32::to_le_bytes), so that 32-bit values keep their full width.  The    *)
(* counters clk, global_clk and current_shard are u32 in the source; the   *)
(* runs explored here are capped by MaxSteps and keep them far below 2^32, *)
(* so they are naturals.                                                   *)
(***************************************************************************)
EXTENDS Integers, Sequences, FiniteSets, TLC

VARIABLES program, state, record, cpu_record, shard_size, unconstrained,
          unconstrained_state, phase, hist, operation

vars == <<program, state, record, cpu_record, shard_size, unconstrained,
          unconstrained_state, phase, hist, operation>>

(***************************************************************************)
(* Bounds of the exploration.                                              *)
(***************************************************************************)
\* longest program body drawn in Init
MaxProgLen == 3
\* most instructions one run executes (cap on global_clk)
MaxSteps == 6
\* most direct calls of mr_cpu/mw_cpu a client makes in one run
MaxCalls == 2
\* most calls of FixedShiftRightOperation::populate on one record
MaxPopulates == 1

(***************************************************************************)
(* u32 words as little-endian byte tuples.                                 *)
(***************************************************************************)
Byte == 0..255

W(n) == <<n % 256, (n \div 256) % 256, (n \div 65536) % 256, (n \div 16777216) % 256>>

\* b.wrapping_add(c)
wrapping_add(b, c) ==
    LET s1 == b[1] + c[1]
        s2 == b[2] + c[2] + (s1 \div 256)
        s3 == b[3] + c[3] + (s2 \div 256)
        s4 == b[4] + c[4] + (s3 \div 256)
    IN  <<s1 % 256, s2 % 256, s3 % 256, s4 % 256>>

\* b.wrapping_sub(c)
wrapping_sub(b, c) ==
    LET d1 == b[1] - c[1]
        d2 == b[2] - c[2] - (IF d1 < 0 THEN 1 ELSE 0)
        d3 == b[3] - c[3] - (IF d2 < 0 THEN 1 ELSE 0)
        d4 == b[4] - c[4] - (IF d3 < 0 THEN 1 ELSE 0)
    IN  <<d1 % 256, d2 % 256, d3 % 256, d4 % 256>>

\* b < c on u32
LtU(b, c) ==
    \/ b[4] < c[4]
    \/ b[4] = c[4] /\ b[3] < c[3]
    \/ b[4] = c[4] /\ b[3] = c[3] /\ b[2] < c[2]
    \/ b[4] = c[4] /\ b[3] = c[3] /\ b[2] = c[2] /\ b[1] < c[1]

\* (b as i32) < (c as i32)
LtS(b, c) ==
    LET nb == b[4] >= 128
        nc == c[4] >= 128
    IN  IF nb # nc THEN nb ELSE LtU(b, c)

\* addr % 4 and addr % 2
Mod4(addr) == addr[1] % 4
Mod2(addr) == addr[1] % 2

\* the u32 as a natural, for words below 2^31 only
ToNat(w) == w[1] + 256 * w[2] + 65536 * w[3] + 16777216 * w[4]

None == <<>>
Some(x) == <<x>>

\* `let v = ...;` followed by the rest of the block: v is computed once, then
\* the rest with its value
Let(v, Rest(_)) == CHOOSE r \in {Rest(x) : x \in {v}} : TRUE

(***************************************************************************)
(* AccessPosition and the records of an access.                            *)
(***************************************************************************)
AccessPosition == {"Memory", "C", "B", "A"}

\* `*position as u32`
PositionIndex(position) ==
    CASE position = "Memory" -> 0
      [] position = "C" -> 1
      [] position = "B" -> 2
      [] position = "A" -> 3

MemoryReadRecord(value, shard, timestamp, prev_shard, prev_timestamp) ==
    [kind |-> "read", value |-> value, shard |-> shard, timestamp |-> timestamp,
     prev_shard |-> prev_shard, prev_timestamp |-> prev_timestamp]

MemoryWriteRecord(value, shard, timestamp, prev_value, prev_shard, prev_timestamp) ==
    [kind |-> "write", value |-> value, shard |-> shard, timestamp |-> timestamp,
     prev_value |-> prev_value, prev_shard |-> prev_shard,
     prev_timestamp |-> prev_timestamp]

CpuRecordDefault == [a |-> None, b |-> None, c |-> None, memory |-> None]

\* a panic!/assert! failure: the run is over, nothing after it executes
Panic(self) == [self EXCEPT !.panicked = TRUE]

\* History only: every call of mr/mw, in call order, with the address, the
\* record returned, the instruction count at the call, the unconstrained
\* region it was made in (0 when made in constrained mode) and the position
\* the caller gave (filled in by mr_cpu/mw_cpu).
LogAccess(self, addr, rec) ==
    [self EXCEPT !.hist.log = Append(@, [addr |-> addr, rec |-> rec,
                                         position |-> "none",
                                         region |-> IF self.unconstrained
                                                    THEN self.hist.regions ELSE 0,
                                         global_clk |-> self.state.global_clk])]

(***************************************************************************)
(* Runtime::mr and Runtime::mw.                                            *)
(***************************************************************************)
\* self.state.memory.get(&addr) as an Option
MemoryGet(self, addr) ==
    IF addr \in DOMAIN self.state.memory THEN Some(self.state.memory[addr]) ELSE None

\* a variant that journals at every access, not only the first
SaveDiffAlways(self, addr) ==
    IF self.unconstrained
    THEN [self EXCEPT !.unconstrained_state.memory_diff =
                          (addr :> MemoryGet(self, addr)) @@ @]
    ELSE self

\* `if self.unconstrained { memory_diff.entry(addr).or_insert(prev_value) }`
SaveDiff(self, addr) ==
    IF self.unconstrained /\ addr \notin DOMAIN self.unconstrained_state.memory_diff
    THEN [self EXCEPT !.unconstrained_state.memory_diff =
                          (addr :> MemoryGet(self, addr)) @@ @]
    ELSE self

\* memory_entry.or_insert((0, 0, 0))
EntryOrInsert(self, addr) ==
    IF addr \in DOMAIN self.state.memory THEN self.state.memory[addr]
    ELSE <<W(0), 0, 0>>

\* a variant of mr that clears the stored value
mrZeroesValue(self, addr, shard, clk) ==
    Let(SaveDiff(self, addr), LAMBDA s1 :
    Let(EntryOrInsert(s1, addr), LAMBDA entry_value :
    Let(MemoryReadRecord(entry_value[1], shard, clk, entry_value[2], entry_value[3]),
        LAMBDA rec :
    [self |-> LogAccess([s1 EXCEPT !.state.memory = (addr :> <<W(0), shard, clk>>) @@ @],
                        addr, rec),
     record |-> rec])))

\* a variant of mr that leaves the stored stamp as it was
mrKeepsTimestamp(self, addr, shard, clk) ==
    Let(SaveDiff(self, addr), LAMBDA s1 :
    Let(EntryOrInsert(s1, addr), LAMBDA entry_value :
    Let(MemoryReadRecord(entry_value[1], shard, clk, entry_value[2], entry_value[3]),
        LAMBDA rec :
    [self |-> LogAccess([s1 EXCEPT !.state.memory = (addr :> entry_value) @@ @],
                        addr, rec),
     record |-> rec])))

mr(self, addr, shard, clk) ==
    Let(SaveDiff(self, addr), LAMBDA s1 :
    Let(EntryOrInsert(s1, addr), LAMBDA entry_value :
    Let(MemoryReadRecord(entry_value[1], shard, clk, entry_value[2], entry_value[3]),
        LAMBDA rec :
    [self |-> LogAccess([s1 EXCEPT !.state.memory =
                                       (addr :> <<entry_value[1], shard, clk>>) @@ @],
                        addr, rec),
     record |-> rec])))

mw(self, addr, value, shard, clk) ==
    Let(SaveDiff(self, addr), LAMBDA s1 :
    Let(EntryOrInsert(s1, addr), LAMBDA entry_value :
    Let(MemoryWriteRecord(value, shard, clk,
                          entry_value[1], entry_value[2], entry_value[3]),
        LAMBDA rec :
    [self |-> LogAccess([s1 EXCEPT !.state.memory = (addr :> <<value, shard, clk>>) @@ @],
                        addr, rec),
     record |-> rec])))

(***************************************************************************)
(* Registers and instruction projections.                                  *)
(***************************************************************************)
\* Register::from_u32 accepts exactly the indices 0..31
IsRegister(w) == w[1] <= 31 /\ w[2] = 0 /\ w[3] = 0 /\ w[4] = 0

X0 == W(0)
\* t0, the register holding the syscall id
X5 == W(5)
\* a0, the register receiving the syscall result
X10 == W(10)
\* Register::from_u32(n), as the address of the register
Reg(n) == W(n)

Instruction(opcode, op_a, op_b, op_c, imm_b, imm_c) ==
    [opcode |-> opcode, op_a |-> op_a, op_b |-> op_b, op_c |-> op_c,
     imm_b |-> imm_b, imm_c |-> imm_c]

\* r_type(): (rd, rs1, rs2), all three through Register::from_u32
r_type_ok(instruction) ==
    IsRegister(instruction.op_a) /\ IsRegister(instruction.op_b)
                                 /\ IsRegister(instruction.op_c)

\* i_type(), s_type(), b_type(): two registers and an immediate
i_type_ok(instruction) == IsRegister(instruction.op_a) /\ IsRegister(instruction.op_b)

\* j_type(), u_type(): one register and an immediate
j_type_ok(instruction) == IsRegister(instruction.op_a)

(***************************************************************************)
(* The CPU-facing wrappers.                                                *)
(***************************************************************************)
\* a variant that counts the positions the other way round (A = 0 .. Memory = 3)
clk_from_positionReversed(self, position) ==
    self.state.clk + (3 - PositionIndex(position))

\* a variant that stamps every position of an instruction alike
clk_from_positionIgnoresPosition(self, position) == self.state.clk

clk_from_position(self, position) == self.state.clk + PositionIndex(position)

current_shard(self) == self.state.current_shard

\* addr - addr % 4
align(addr) == <<addr[1] - (addr[1] % 4), addr[2], addr[3], addr[4]>>

\* addr > 40
AboveRegisters(addr) == addr[1] > 40 \/ addr[2] > 0 \/ addr[3] > 0 \/ addr[4] > 0

\* History only: the position of the call just logged
LogPosition(self, position) ==
    [self EXCEPT !.hist.log = [@ EXCEPT ![Len(self.hist.log)].position = position]]

\* a variant that checks the alignment only
validate_memory_accessAlignmentOnly(addr, position) ==
    IF position = "Memory"
    THEN Mod4(addr) = 0
    ELSE IsRegister(addr)

\* TRUE when validate_memory_access returns, FALSE when it panics
validate_memory_access(addr, position) ==
    IF position = "Memory"
    THEN Mod4(addr) = 0 /\ AboveRegisters(addr)
    ELSE IsRegister(addr)

SetSlot(cpu, position, rec) ==
    CASE position = "A" -> [cpu EXCEPT !.a = Some(rec)]
      [] position = "B" -> [cpu EXCEPT !.b = Some(rec)]
      [] position = "C" -> [cpu EXCEPT !.c = Some(rec)]
      [] position = "Memory" -> [cpu EXCEPT !.memory = Some(rec)]

GetSlot(cpu, position) ==
    CASE position = "A" -> cpu.a
      [] position = "B" -> cpu.b
      [] position = "C" -> cpu.c
      [] position = "Memory" -> cpu.memory

\* a variant that stashes the record in either mode
mr_cpuAlwaysStashes(self, addr, position) ==
    IF self.panicked THEN [self |-> self, value |-> W(0)]
    ELSE IF ~validate_memory_access(addr, position)
    THEN [self |-> Panic(self), value |-> W(0)]
    ELSE Let(mr(self, addr, current_shard(self), clk_from_position(self, position)),
             LAMBDA r :
         [self |-> [LogPosition(r.self, position)
                       EXCEPT !.cpu_record = SetSlot(@, position, r.record)],
          value |-> r.record.value])

mr_cpu(self, addr, position) ==
    IF self.panicked THEN [self |-> self, value |-> W(0)]
    ELSE IF ~validate_memory_access(addr, position)
    THEN [self |-> Panic(self), value |-> W(0)]
    ELSE Let(mr(self, addr, current_shard(self), clk_from_position(self, position)),
             LAMBDA r :
         [self |-> IF ~r.self.unconstrained
                   THEN [LogPosition(r.self, position)
                            EXCEPT !.cpu_record = SetSlot(@, position, r.record)]
                   ELSE LogPosition(r.self, position),
          value |-> r.record.value])

mw_cpu(self, addr, value, position) ==
    IF self.panicked THEN self
    ELSE IF ~validate_memory_access(addr, position) THEN Panic(self)
    ELSE Let(mw(self, addr, value, current_shard(self),
                clk_from_position(self, position)),
             LAMBDA r :
         IF ~r.self.unconstrained
         THEN IF GetSlot(r.self.cpu_record, position) # None
              THEN Panic(LogPosition(r.self, position))
              ELSE [LogPosition(r.self, position)
                       EXCEPT !.cpu_record = SetSlot(@, position, r.record)]
         ELSE LogPosition(r.self, position))

rr(self, register, position) == mr_cpu(self, register, position)

\* a variant without the test for X0
rwWritesX0(self, register, value) == mw_cpu(self, register, value, "A")

rw(self, register, value) ==
    IF register = X0 THEN self
    ELSE mw_cpu(self, register, value, "A")

\* Runtime::register / Runtime::word: a lookup that is not an access
word(self, addr) ==
    IF addr \in DOMAIN self.state.memory THEN self.state.memory[addr][1] ELSE W(0)

(***************************************************************************)
(* Event emission.                                                         *)
(***************************************************************************)
\* emit_cpu that stamps the event with the pc of the runtime, which execute()
\* has already advanced, instead of the pc it is given
emit_cpuCurrentPc(self, shard, clk, pc, instruction, a, b, c, memory_store_value, rec) ==
    [self EXCEPT !.record.cpu_events =
        Append(@, [shard |-> shard, clk |-> clk, pc |-> self.state.pc,
                   instruction |-> instruction,
                   a |-> a, a_record |-> rec.a,
                   b |-> b, b_record |-> rec.b,
                   c |-> c, c_record |-> rec.c,
                   memory |-> memory_store_value,
                   memory_record |-> rec.memory])]

emit_cpu(self, shard, clk, pc, instruction, a, b, c, memory_store_value, rec) ==
    [self EXCEPT !.record.cpu_events =
        Append(@, [shard |-> shard, clk |-> clk, pc |-> pc,
                   instruction |-> instruction,
                   a |-> a, a_record |-> rec.a,
                   b |-> b, b_record |-> rec.b,
                   c |-> c, c_record |-> rec.c,
                   memory |-> memory_store_value,
                   memory_record |-> rec.memory])]

AluEvent(clk, opcode, a, b, c) ==
    [clk |-> clk, opcode |-> opcode, a |-> a, b |-> b, c |-> c]

emit_alu(self, clk, opcode, a, b, c) ==
    LET event == AluEvent(clk, opcode, a, b, c)
    IN  CASE opcode = "ADD" -> [self EXCEPT !.record.add_events = Append(@, event)]
          [] opcode = "SUB" -> [self EXCEPT !.record.sub_events = Append(@, event)]
          [] opcode \in {"XOR", "OR", "AND"} ->
                 [self EXCEPT !.record.bitwise_events = Append(@, event)]
          [] opcode = "SLL" ->
                 [self EXCEPT !.record.shift_left_events = Append(@, event)]
          [] opcode \in {"SRL", "SRA"} ->
                 [self EXCEPT !.record.shift_right_events = Append(@, event)]
          [] opcode \in {"SLT", "SLTU"} ->
                 [self EXCEPT !.record.lt_events = Append(@, event)]
          [] opcode \in {"MUL", "MULHU", "MULHSU", "MULH"} ->
                 [self EXCEPT !.record.mul_events = Append(@, event)]
          [] opcode \in {"DIVU", "REMU", "DIV", "REM"} ->
                 [self EXCEPT !.record.divrem_events = Append(@, event)]
          [] OTHER -> self

(***************************************************************************)
(* Operand fetch and write-back helpers of execute().                      *)
(***************************************************************************)
\* alu_rr that reads both registers of an R-type instruction at position B
alu_rrBothAtB(self, instruction) ==
    IF ~instruction.imm_c
    THEN IF ~r_type_ok(instruction)
         THEN [self |-> Panic(self), rd |-> X0, b |-> W(0), c |-> W(0)]
         ELSE Let(rr(self, instruction.op_c, "B"), LAMBDA rc :
              Let(rr(rc.self, instruction.op_b, "B"), LAMBDA rb :
              [self |-> rb.self, rd |-> instruction.op_a,
               b |-> rb.value, c |-> rc.value]))
    ELSE IF ~instruction.imm_b /\ instruction.imm_c
    THEN IF ~i_type_ok(instruction)
         THEN [self |-> Panic(self), rd |-> X0, b |-> W(0), c |-> W(0)]
         ELSE Let(rr(self, instruction.op_b, "B"), LAMBDA rb :
              [self |-> rb.self, rd |-> instruction.op_a,
               b |-> rb.value, c |-> instruction.op_c])
    ELSE IF ~IsRegister(instruction.op_a)
         THEN [self |-> Panic(self), rd |-> X0, b |-> W(0), c |-> W(0)]
         ELSE [self |-> self, rd |-> instruction.op_a,
               b |-> instruction.op_b, c |-> instruction.op_c]

alu_rr(self, instruction) ==
    IF ~instruction.imm_c
    THEN IF ~r_type_ok(instruction)
         THEN [self |-> Panic(self), rd |-> X0, b |-> W(0), c |-> W(0)]
         ELSE Let(rr(self, instruction.op_c, "C"), LAMBDA rc :
              Let(rr(rc.self, instruction.op_b, "B"), LAMBDA rb :
              [self |-> rb.self, rd |-> instruction.op_a,
               b |-> rb.value, c |-> rc.value]))
    ELSE IF ~instruction.imm_b /\ instruction.imm_c
    THEN IF ~i_type_ok(instruction)
         THEN [self |-> Panic(self), rd |-> X0, b |-> W(0), c |-> W(0)]
         ELSE Let(rr(self, instruction.op_b, "B"), LAMBDA rb :
              [self |-> rb.self, rd |-> instruction.op_a,
               b |-> rb.value, c |-> instruction.op_c])
    ELSE IF ~IsRegister(instruction.op_a)
         THEN [self |-> Panic(self), rd |-> X0, b |-> W(0), c |-> W(0)]
         ELSE [self |-> self, rd |-> instruction.op_a,
               b |-> instruction.op_b, c |-> instruction.op_c]

\* alu_rw that emits nothing when the destination is x0
alu_rwSkipsX0(self, instruction, rd, a, b, c) ==
    Let(rw(self, rd, a), LAMBDA s1 :
    IF s1.panicked \/ rd = X0 THEN s1
    ELSE emit_alu(s1, s1.state.clk, instruction.opcode, a, b, c))

alu_rw(self, instruction, rd, a, b, c) ==
    Let(rw(self, rd, a), LAMBDA s1 :
    IF s1.panicked THEN s1
    ELSE emit_alu(s1, s1.state.clk, instruction.opcode, a, b, c))

load_rr(self, instruction) ==
    IF ~i_type_ok(instruction)
    THEN [self |-> Panic(self), rd |-> X0, b |-> W(0), c |-> W(0),
          addr |-> W(0), memory_value |-> W(0)]
    ELSE Let(rr(self, instruction.op_b, "B"), LAMBDA rb :
         Let(wrapping_add(rb.value, instruction.op_c), LAMBDA addr :
         Let(mr_cpu(rb.self, align(addr), "Memory"), LAMBDA m :
         [self |-> m.self, rd |-> instruction.op_a, b |-> rb.value,
          c |-> instruction.op_c, addr |-> addr, memory_value |-> m.value])))

\* store_rr whose preliminary read is a timestamped read (mr) of the word
store_rrTimestampedRead(self, instruction) ==
    IF ~i_type_ok(instruction)
    THEN [self |-> Panic(self), a |-> W(0), b |-> W(0), c |-> W(0),
          addr |-> W(0), memory_value |-> W(0)]
    ELSE Let(rr(self, instruction.op_b, "B"), LAMBDA rb :
         Let(rr(rb.self, instruction.op_a, "A"), LAMBDA ra :
         Let(wrapping_add(rb.value, instruction.op_c), LAMBDA addr :
         Let(mr(ra.self, align(addr), current_shard(ra.self), ra.self.state.clk),
             LAMBDA m :
         [self |-> m.self, a |-> ra.value, b |-> rb.value, c |-> instruction.op_c,
          addr |-> addr, memory_value |-> m.record.value]))))

store_rr(self, instruction) ==
    IF ~i_type_ok(instruction)
    THEN [self |-> Panic(self), a |-> W(0), b |-> W(0), c |-> W(0),
          addr |-> W(0), memory_value |-> W(0)]
    ELSE Let(rr(self, instruction.op_b, "B"), LAMBDA rb :
         Let(rr(rb.self, instruction.op_a, "A"), LAMBDA ra :
         Let(wrapping_add(rb.value, instruction.op_c), LAMBDA addr :
         [self |-> ra.self, a |-> ra.value, b |-> rb.value, c |-> instruction.op_c,
          addr |-> addr, memory_value |-> word(ra.self, align(addr))])))

branch_rr(self, instruction) ==
    IF ~i_type_ok(instruction)
    THEN [self |-> Panic(self), a |-> W(0), b |-> W(0), c |-> W(0)]
    ELSE Let(rr(self, instruction.op_b, "B"), LAMBDA rb :
         Let(rr(rb.self, instruction.op_a, "A"), LAMBDA ra :
         [self |-> ra.self, a |-> ra.value, b |-> rb.value, c |-> instruction.op_c]))

\* self.program.instructions[((pc - pc_base) / 4) as usize]
PcIndex(self) ==
    ToNat(wrapping_sub(self.state.pc, self.program.pc_base)) \div 4

fetch(self) == self.program.instructions[PcIndex(self) + 1]

(***************************************************************************)
(* Integer semantics of the ALU opcodes.                                   *)
(***************************************************************************)
RECURSIVE BitwiseByte(_, _, _, _)
\* the bitwise combination of the low n bits of two bytes
BitwiseByte(opcode, x, y, n) ==
    IF n = 0 THEN 0
    ELSE LET bx == x % 2
             by == y % 2
             bit == CASE opcode = "XOR" -> (bx + by) % 2
                      [] opcode = "OR" -> IF bx + by > 0 THEN 1 ELSE 0
                      [] opcode = "AND" -> bx * by
         IN  bit + 2 * BitwiseByte(opcode, x \div 2, y \div 2, n - 1)

Bitwise(opcode, b, c) ==
    <<BitwiseByte(opcode, b[1], c[1], 8), BitwiseByte(opcode, b[2], c[2], 8),
      BitwiseByte(opcode, b[3], c[3], 8), BitwiseByte(opcode, b[4], c[4], 8)>>

\* u32::MAX and i32::MIN as u32
U32Max == <<255, 255, 255, 255>>
I32Min == <<0, 0, 0, 128>>

\* bit i (0 = least significant) of a word
BitOf(w, i) == (w[(i \div 8) + 1] \div (2 ^ (i % 8))) % 2

\* 2 * w + bit as a 33-bit number: the low word and the bit carried out
ShiftIn(w, bit) ==
    LET s1 == 2 * w[1] + bit
        s2 == 2 * w[2] + (s1 \div 256)
        s3 == 2 * w[3] + (s2 \div 256)
        s4 == 2 * w[4] + (s3 \div 256)
    IN  [word |-> <<s1 % 256, s2 % 256, s3 % 256, s4 % 256>>, carry |-> s4 \div 256]

\* one step of the division of b by c: the next bit of b (bit i) is brought
\* down into the remainder, and c is taken off it if it fits
DivRemStep(b, c, i, acc) ==
    LET sh == ShiftIn(acc.r, BitOf(b, i))
        fits == sh.carry = 1 \/ ~LtU(sh.word, c)
    IN  [q |-> ShiftIn(acc.q, IF fits THEN 1 ELSE 0).word,
         r |-> IF fits THEN wrapping_sub(sh.word, c) ELSE sh.word]

RECURSIVE DivRemU(_, _, _, _)
\* quotient and remainder of b by c # 0 as unsigned numbers, one bit of b at
\* a time from bit i down (acc holds the quotient and remainder so far, and
\* each step is evaluated before the next one starts)
DivRemU(b, c, i, acc) ==
    IF i < 0 THEN acc
    ELSE Let(DivRemStep(b, c, i, acc), LAMBDA next :
         IF Len(next.q) = 4 THEN DivRemU(b, c, i - 1, next) ELSE next)

\* u32: b.wrapping_div(c), b.wrapping_rem(c), for c # 0
wrapping_div_u32(b, c) == DivRemU(b, c, 31, [q |-> W(0), r |-> W(0)]).q
wrapping_rem_u32(b, c) == DivRemU(b, c, 31, [q |-> W(0), r |-> W(0)]).r

\* (w as i32) < 0, (w as i32).wrapping_neg() as u32, (w as i32).unsigned_abs()
IsNegative(w) == w[4] >= 128
wrapping_neg(w) == wrapping_sub(W(0), w)
unsigned_abs(w) == IF IsNegative(w) THEN wrapping_neg(w) ELSE w

\* i32: (b as i32).wrapping_div(c as i32) as u32 for c # 0: the quotient
\* truncated toward zero, i32::MIN / -1 wrapping to i32::MIN
wrapping_div_i32(b, c) ==
    LET q == wrapping_div_u32(unsigned_abs(b), unsigned_abs(c))
    IN  IF IsNegative(b) # IsNegative(c) THEN wrapping_neg(q) ELSE q

\* i32: (b as i32).wrapping_rem(c as i32) as u32 for c # 0: the remainder has
\* the sign of the dividend, i32::MIN % -1 is 0
wrapping_rem_i32(b, c) ==
    LET r == wrapping_rem_u32(unsigned_abs(b), unsigned_abs(c))
    IN  IF IsNegative(b) THEN wrapping_neg(r) ELSE r

\* DivRemResult whose REM is the remainder of the magnitudes, without the
\* sign of the dividend
DivRemResultUnsignedRem(opcode, b, c) ==
    CASE opcode = "DIV" -> IF c = W(0) THEN U32Max ELSE wrapping_div_i32(b, c)
      [] opcode = "DIVU" -> IF c = W(0) THEN U32Max ELSE wrapping_div_u32(b, c)
      [] opcode = "REM" -> IF c = W(0) THEN b
                           ELSE wrapping_rem_u32(unsigned_abs(b), unsigned_abs(c))
      [] opcode = "REMU" -> IF c = W(0) THEN b ELSE wrapping_rem_u32(b, c)

\* DivRemResult whose REM and REMU give 0 for a zero divisor
DivRemResultZeroRemainder(opcode, b, c) ==
    CASE opcode = "DIV" -> IF c = W(0) THEN U32Max ELSE wrapping_div_i32(b, c)
      [] opcode = "DIVU" -> IF c = W(0) THEN U32Max ELSE wrapping_div_u32(b, c)
      [] opcode = "REM" -> IF c = W(0) THEN W(0) ELSE wrapping_rem_i32(b, c)
      [] opcode = "REMU" -> IF c = W(0) THEN W(0) ELSE wrapping_rem_u32(b, c)

\* the DIV, DIVU, REM and REMU arms
DivRemResult(opcode, b, c) ==
    CASE opcode = "DIV" -> IF c = W(0) THEN U32Max ELSE wrapping_div_i32(b, c)
      [] opcode = "DIVU" -> IF c = W(0) THEN U32Max ELSE wrapping_div_u32(b, c)
      [] opcode = "REM" -> IF c = W(0) THEN b ELSE wrapping_rem_i32(b, c)
      [] opcode = "REMU" -> IF c = W(0) THEN b ELSE wrapping_rem_u32(b, c)

DivRemOpcodes == {"DIV", "DIVU", "REM", "REMU"}

RECURSIVE ShlBy(_, _)
\* w shifted left by n bits, one bit at a time
ShlBy(w, n) ==
    IF n = 0 THEN w
    ELSE Let(ShiftIn(w, 0).word, LAMBDA next :
         IF Len(next) = 4 THEN ShlBy(next, n - 1) ELSE next)

\* w shifted right by one bit, with fill as the new top bit
Halve(w, fill) ==
    << (w[1] \div 2) + 128 * (w[2] % 2), (w[2] \div 2) + 128 * (w[3] % 2),
       (w[3] \div 2) + 128 * (w[4] % 2), (w[4] \div 2) + 128 * fill >>

RECURSIVE ShrBy(_, _, _)
\* w shifted right by n bits, one bit at a time, fill coming in at the top
ShrBy(w, n, fill) ==
    IF n = 0 THEN w
    ELSE Let(Halve(w, fill), LAMBDA next :
         IF Len(next) = 4 THEN ShrBy(next, n - 1, fill) ELSE next)

\* u32::wrapping_shl, u32::wrapping_shr, i32::wrapping_shr: the shift amount is
\* c & 31
wrapping_shl(b, c) == ShlBy(b, c[1] % 32)
wrapping_shr_u32(b, c) == ShrBy(b, c[1] % 32, 0)
wrapping_shr_i32(b, c) == ShrBy(b, c[1] % 32, BitOf(b, 31))

\* shifts that take the whole of c as the amount: everything is shifted out
\* when c >= 32
ShiftResultUnmasked(opcode, b, c) ==
    LET all == c[2] # 0 \/ c[3] # 0 \/ c[4] # 0 \/ c[1] >= 32
    IN  CASE opcode = "SLL" -> IF all THEN W(0) ELSE wrapping_shl(b, c)
          [] opcode = "SRL" -> IF all THEN W(0) ELSE wrapping_shr_u32(b, c)
          [] opcode = "SRA" -> IF all THEN (IF BitOf(b, 31) = 1 THEN U32Max ELSE W(0))
                               ELSE wrapping_shr_i32(b, c)

\* the SLL, SRL and SRA arms
ShiftResult(opcode, b, c) ==
    CASE opcode = "SLL" -> wrapping_shl(b, c)
      [] opcode = "SRL" -> wrapping_shr_u32(b, c)
      [] opcode = "SRA" -> wrapping_shr_i32(b, c)

ShiftOpcodes == {"SLL", "SRL", "SRA"}

\* (w as i32) as i64 and w as u64, as eight bytes
SignExtend64(w) == w \o (IF IsNegative(w) THEN U32Max ELSE W(0))
ZeroExtend64(w) == w \o W(0)

\* x * d mod 2^64 for an eight-byte x and a byte d
ScaleBy(x, d) ==
    LET t1 == x[1] * d
        t2 == x[2] * d + (t1 \div 256)
        t3 == x[3] * d + (t2 \div 256)
        t4 == x[4] * d + (t3 \div 256)
        t5 == x[5] * d + (t4 \div 256)
        t6 == x[6] * d + (t5 \div 256)
        t7 == x[7] * d + (t6 \div 256)
        t8 == x[8] * d + (t7 \div 256)
    IN  <<t1 % 256, t2 % 256, t3 % 256, t4 % 256,
          t5 % 256, t6 % 256, t7 % 256, t8 % 256>>

\* x * 256^j mod 2^64
ShiftBytes(x, j) == [i \in 1..8 |-> IF i > j THEN x[i - j] ELSE 0]

\* x + y mod 2^64
Sum64(x, y) ==
    LET t1 == x[1] + y[1]
        t2 == x[2] + y[2] + (t1 \div 256)
        t3 == x[3] + y[3] + (t2 \div 256)
        t4 == x[4] + y[4] + (t3 \div 256)
        t5 == x[5] + y[5] + (t4 \div 256)
        t6 == x[6] + y[6] + (t5 \div 256)
        t7 == x[7] + y[7] + (t6 \div 256)
        t8 == x[8] + y[8] + (t7 \div 256)
    IN  <<t1 % 256, t2 % 256, t3 % 256, t4 % 256,
          t5 % 256, t6 % 256, t7 % 256, t8 % 256>>

\* i64::wrapping_mul / u64::wrapping_mul: the product mod 2^64, one row of
\* the long multiplication per byte of y
RECURSIVE MulRows(_, _, _, _)
MulRows(x, y, j, acc) ==
    IF j = 8 THEN acc
    ELSE Let(Sum64(acc, ShiftBytes(ScaleBy(x, y[j + 1]), j)),
             LAMBDA next : IF Len(next) = 8 THEN MulRows(x, y, j + 1, next) ELSE next)

wrapping_mul_64(x, y) == MulRows(x, y, 0, ZeroExtend64(W(0)))

\* u32::wrapping_mul: the low half of the product
wrapping_mul(b, c) == SubSeq(wrapping_mul_64(ZeroExtend64(b), ZeroExtend64(c)), 1, 4)

\* (product >> 32) as u32
High32(product) == SubSeq(product, 5, 8)

\* MulResult whose MULHSU sign-extends c as well
MulResultSignedC(opcode, b, c) ==
    CASE opcode = "MUL" -> wrapping_mul(b, c)
      [] opcode = "MULH" -> High32(wrapping_mul_64(SignExtend64(b), SignExtend64(c)))
      [] opcode = "MULHU" -> High32(wrapping_mul_64(ZeroExtend64(b), ZeroExtend64(c)))
      [] opcode = "MULHSU" -> High32(wrapping_mul_64(SignExtend64(b), SignExtend64(c)))

\* the MUL, MULH, MULHU and MULHSU arms
MulResult(opcode, b, c) ==
    CASE opcode = "MUL" -> wrapping_mul(b, c)
      [] opcode = "MULH" -> High32(wrapping_mul_64(SignExtend64(b), SignExtend64(c)))
      [] opcode = "MULHU" -> High32(wrapping_mul_64(ZeroExtend64(b), ZeroExtend64(c)))
      [] opcode = "MULHSU" -> High32(wrapping_mul_64(SignExtend64(b), ZeroExtend64(c)))

MulOpcodes == {"MUL", "MULH", "MULHU", "MULHSU"}

AluResult(opcode, b, c) ==
    CASE opcode = "ADD" -> wrapping_add(b, c)
      [] opcode = "SUB" -> wrapping_sub(b, c)
      [] opcode \in {"XOR", "OR", "AND"} -> Bitwise(opcode, b, c)
      [] opcode = "SLT" -> IF LtS(b, c) THEN W(1) ELSE W(0)
      [] opcode = "SLTU" -> IF LtU(b, c) THEN W(1) ELSE W(0)
      [] opcode \in DivRemOpcodes -> DivRemResult(opcode, b, c)
      [] opcode \in ShiftOpcodes -> ShiftResult(opcode, b, c)
      [] opcode \in MulOpcodes -> MulResult(opcode, b, c)

AluOpcodes ==
    {"ADD", "SUB", "XOR", "OR", "AND", "SLT", "SLTU"} \cup DivRemOpcodes
        \cup ShiftOpcodes \cup MulOpcodes
LoadOpcodes == {"LB", "LH", "LW", "LBU", "LHU"}
StoreOpcodes == {"SB", "SH", "SW"}
BranchOpcodes == {"BEQ", "BNE", "BLT", "BGE", "BLTU", "BGEU"}

\* ((value as i8) as i32) as u32
SignExtendByte(v) == IF v >= 128 THEN <<v, 255, 255, 255>> ELSE <<v, 0, 0, 0>>

\* ((value as i16) as i32) as u32, the half given as its two bytes
SignExtendHalf(lo, hi) == IF hi >= 128 THEN <<lo, hi, 255, 255>> ELSE <<lo, hi, 0, 0>>

\* (addr >> 1) % 2
HalfLane(addr) == (addr[1] \div 2) % 2

\* LoadValue that zero-extends the byte of LB and the half of LH
LoadValueZeroExtends(opcode, addr, w) ==
    CASE opcode \in {"LB", "LBU"} -> <<w[Mod4(addr) + 1], 0, 0, 0>>
      [] opcode \in {"LH", "LHU"} -> IF HalfLane(addr) = 0 THEN <<w[1], w[2], 0, 0>>
                                      ELSE <<w[3], w[4], 0, 0>>
      [] opcode = "LW" -> w

\* the value a load writes to rd
LoadValue(opcode, addr, w) ==
    CASE opcode = "LB" -> SignExtendByte(w[Mod4(addr) + 1])
      [] opcode = "LBU" -> <<w[Mod4(addr) + 1], 0, 0, 0>>
      [] opcode = "LH" -> IF HalfLane(addr) = 0 THEN SignExtendHalf(w[1], w[2])
                          ELSE SignExtendHalf(w[3], w[4])
      [] opcode = "LHU" -> IF HalfLane(addr) = 0 THEN <<w[1], w[2], 0, 0>>
                           ELSE <<w[3], w[4], 0, 0>>
      [] opcode = "LW" -> w

\* the alignment assertion of a load or store: TRUE when it passes
\* AlignmentOk that asks the same of a half access as of a byte access
AlignmentOkHalvesAnywhere(opcode, addr) ==
    CASE opcode \in {"LW", "SW"} -> Mod4(addr) = 0
      [] OTHER -> TRUE

AlignmentOk(opcode, addr) ==
    CASE opcode \in {"LH", "LHU", "SH"} -> Mod2(addr) = 0
      [] opcode \in {"LW", "SW"} -> Mod4(addr) = 0
      [] OTHER -> TRUE

\* StoreValue whose SB and SH clear the lanes they do not write
StoreValueClearsRest(opcode, addr, a, w) ==
    CASE opcode = "SB" -> <<IF Mod4(addr) = 0 THEN a[1] ELSE 0,
                            IF Mod4(addr) = 1 THEN a[1] ELSE 0,
                            IF Mod4(addr) = 2 THEN a[1] ELSE 0,
                            IF Mod4(addr) = 3 THEN a[1] ELSE 0>>
      [] opcode = "SH" -> IF HalfLane(addr) = 0 THEN <<a[1], a[2], 0, 0>>
                          ELSE <<0, 0, a[1], a[2]>>
      [] opcode = "SW" -> a

\* the word a store writes back
StoreValue(opcode, addr, a, w) ==
    CASE opcode = "SB" -> <<IF Mod4(addr) = 0 THEN a[1] ELSE w[1],
                            IF Mod4(addr) = 1 THEN a[1] ELSE w[2],
                            IF Mod4(addr) = 2 THEN a[1] ELSE w[3],
                            IF Mod4(addr) = 3 THEN a[1] ELSE w[4]>>
      [] opcode = "SH" -> IF HalfLane(addr) = 0 THEN <<a[1], a[2], w[3], w[4]>>
                          ELSE <<w[1], w[2], a[1], a[2]>>
      [] opcode = "SW" -> a

\* BranchTaken that compares BLT and BGE as unsigned numbers
BranchTakenUnsigned(opcode, a, b) ==
    CASE opcode = "BEQ" -> a = b
      [] opcode = "BNE" -> a # b
      [] opcode \in {"BLT", "BLTU"} -> LtU(a, b)
      [] opcode \in {"BGE", "BGEU"} -> ~LtU(a, b)

BranchTaken(opcode, a, b) ==
    CASE opcode = "BEQ" -> a = b
      [] opcode = "BNE" -> a # b
      [] opcode = "BLT" -> LtS(a, b)
      [] opcode = "BGE" -> ~LtS(a, b)
      [] opcode = "BLTU" -> LtU(a, b)
      [] opcode = "BGEU" -> ~LtU(a, b)

(***************************************************************************)
(* Syscalls.  The handlers live outside the runtime; what is modelled is   *)
(* their contract: a handler returns a result word, may set ctx.next_pc    *)
(* and ctx.clk, and the two unconstrained handlers snapshot and roll back. *)
(***************************************************************************)
\* the registry: syscall code -> num_extra_cycles of its handler
syscall_map ==
    [code \in {W(101), W(102), W(110), W(111)} |->
        CASE code = W(101) -> [name |-> "LWA", num_extra_cycles |-> 0]
          [] code = W(102) -> [name |-> "PRECOMPILE", num_extra_cycles |-> 8]
          [] code = W(110) -> [name |-> "ENTER_UNCONSTRAINED", num_extra_cycles |-> 0]
          [] code = W(111) -> [name |-> "EXIT_UNCONSTRAINED", num_extra_cycles |-> 0]]

MaxOf(S) ==
    IF S = {} THEN 0
    ELSE LET x == CHOOSE y \in S : \A z \in S : z <= y IN x

\* .values().map(num_extra_cycles).max().unwrap_or(0)
max_syscall_cycles == MaxOf({syscall_map[code].num_extra_cycles : code \in DOMAIN syscall_map})

ExecutionRecordDefault ==
    [cpu_events |-> <<>>, add_events |-> <<>>, sub_events |-> <<>>,
     bitwise_events |-> <<>>, shift_left_events |-> <<>>, shift_right_events |-> <<>>,
     lt_events |-> <<>>, mul_events |-> <<>>, divrem_events |-> <<>>,
     first_memory_record |-> <<>>, last_memory_record |-> <<>>,
     program_memory_record |-> <<>>, byte_lookups |-> <<>>]

ForkStateDefault == [memory_diff |-> <<>>, record |-> ExecutionRecordDefault]

\* region exit: put back every journaled entry, erase those journaled as absent
RestoreMemory(memory, memory_diff) ==
    LET erased == {addr \in DOMAIN memory_diff : memory_diff[addr] = None}
        kept == (DOMAIN memory \cup DOMAIN memory_diff) \ erased
    IN  [addr \in kept |->
            IF addr \in DOMAIN memory_diff THEN memory_diff[addr][1] ELSE memory[addr]]

\* what a handler may do; honours = it advances ctx.clk by num_extra_cycles,
\* jumps = it sets ctx.next_pc (to 0) instead of leaving it at pc + 4
HandlerBehaviours ==
    { [honours |-> TRUE, jumps |-> FALSE],
      [honours |-> FALSE, jumps |-> FALSE],
      [honours |-> TRUE, jumps |-> TRUE] }

\* the handler's own work: the runtime after it, the result word, ctx.next_pc,
\* ctx.clk
HandlerExecute(self, code, h) ==
    LET name == syscall_map[code].name
        ctx_clk == self.state.clk + syscall_map[code].num_extra_cycles
                       + (IF h.honours THEN 0 ELSE 1)
        ctx_next_pc == IF h.jumps THEN W(0) ELSE wrapping_add(self.state.pc, W(4))
    IN  CASE name = "ENTER_UNCONSTRAINED" ->
                 IF self.unconstrained
                 THEN [self |-> Panic(self), a |-> W(0), next_pc |-> ctx_next_pc,
                       clk |-> ctx_clk]
                 ELSE [self |-> [self EXCEPT
                                   !.unconstrained = TRUE,
                                   !.unconstrained_state =
                                       [memory_diff |-> <<>>, record |-> self.record],
                                   !.record = ExecutionRecordDefault,
                                   !.hist.entry_memory = self.state.memory,
                                   !.hist.regions = @ + 1],
                       a |-> W(1), next_pc |-> ctx_next_pc, clk |-> ctx_clk]
          [] name = "EXIT_UNCONSTRAINED" ->
                 IF self.unconstrained
                 THEN [self |-> [self EXCEPT
                                   !.state.memory =
                                       RestoreMemory(@, self.unconstrained_state.memory_diff),
                                   !.record = self.unconstrained_state.record,
                                   !.unconstrained_state = ForkStateDefault,
                                   !.unconstrained = FALSE,
                                   !.hist.exits = @ + 1],
                       a |-> W(0), next_pc |-> ctx_next_pc, clk |-> ctx_clk]
                 ELSE [self |-> self, a |-> W(0), next_pc |-> ctx_next_pc,
                       clk |-> ctx_clk]
          [] OTHER ->
                 [self |-> self, a |-> W(7), next_pc |-> ctx_next_pc, clk |-> ctx_clk]

\* handler.execute(ctx), with the call noted in the history
SyscallExecute(self, code, h) ==
    Let(HandlerExecute(self, code, h), LAMBDA r :
    [r EXCEPT !.self.hist.syscall =
                  [id |-> code, init_clk |-> self.state.clk, clk |-> r.clk,
                   next_pc |-> r.next_pc, a |-> r.a,
                   global_clk |-> self.state.global_clk]])

(***************************************************************************)
(* Runtime::execute.                                                       *)
(***************************************************************************)
\* what one arm of the match leaves behind
Arm(self, a, b, c, next_pc, memory_store_value) ==
    [self |-> self, a |-> a, b |-> b, c |-> c, next_pc |-> next_pc,
     memory_store_value |-> memory_store_value]

Fatal(self) == Arm(Panic(self), W(0), W(0), W(0), W(0), None)

ExecuteAlu(self, instruction, next_pc) ==
    Let(alu_rr(self, instruction), LAMBDA r :
    Let(AluResult(instruction.opcode, r.b, r.c), LAMBDA a :
    IF r.self.panicked THEN Fatal(r.self)
    ELSE Arm(alu_rw(r.self, instruction, r.rd, a, r.b, r.c), a, r.b, r.c,
             next_pc, None)))

ExecuteLoad(self, instruction, next_pc) ==
    Let(load_rr(self, instruction), LAMBDA r :
    Let(LoadValue(instruction.opcode, r.addr, r.memory_value), LAMBDA a :
    IF r.self.panicked THEN Fatal(r.self)
    ELSE IF ~AlignmentOk(instruction.opcode, r.addr) THEN Fatal(r.self)
    ELSE Arm(rw(r.self, r.rd, a), a, r.b, r.c, next_pc, Some(r.memory_value))))

ExecuteStore(self, instruction, next_pc) ==
    Let(store_rr(self, instruction), LAMBDA r :
    Let(StoreValue(instruction.opcode, r.addr, r.a, r.memory_value), LAMBDA value :
    IF r.self.panicked THEN Fatal(r.self)
    ELSE IF ~AlignmentOk(instruction.opcode, r.addr) THEN Fatal(r.self)
    ELSE Arm(mw_cpu(r.self, align(r.addr), value, "Memory"), r.a, r.b, r.c,
             next_pc, Some(value))))

ExecuteBranch(self, instruction, next_pc) ==
    Let(branch_rr(self, instruction), LAMBDA r :
    IF r.self.panicked THEN Fatal(r.self)
    ELSE Arm(r.self, r.a, r.b, r.c,
             IF BranchTaken(instruction.opcode, r.a, r.b)
             THEN wrapping_add(self.state.pc, r.c) ELSE next_pc,
             None))

\* u32 `b + c` overflows
AddOverflows(b, c) == LtU(wrapping_add(b, c), b)

\* `self.state.pc + 4` in the JAL and JALR arms is a plain u32 addition: when
\* it overflows, a build with overflow checks (h.overflow_checks) aborts and a
\* build without them wraps
PcPlus4Aborts(self, h) == h.overflow_checks /\ AddOverflows(self.state.pc, W(4))

\* ExecuteJalr that writes rd before it reads rs1
ExecuteJalrWritesFirst(self, instruction, h) ==
    IF ~i_type_ok(instruction) THEN Fatal(self)
    ELSE IF PcPlus4Aborts(self, h) THEN Fatal(self)
    ELSE Let(wrapping_add(self.state.pc, W(4)), LAMBDA a :
         Let(rr(rw(self, instruction.op_a, a), instruction.op_b, "B"), LAMBDA rb :
         Arm(rb.self, a, rb.value, instruction.op_c,
             wrapping_add(rb.value, instruction.op_c), None)))

ExecuteJal(self, instruction, h) ==
    IF ~j_type_ok(instruction) THEN Fatal(self)
    ELSE IF PcPlus4Aborts(self, h) THEN Fatal(self)
    ELSE Let(wrapping_add(self.state.pc, W(4)), LAMBDA a :
         Arm(rw(self, instruction.op_a, a), a, instruction.op_b, W(0),
             wrapping_add(self.state.pc, instruction.op_b), None))

ExecuteJalr(self, instruction, h) ==
    IF ~i_type_ok(instruction) THEN Fatal(self)
    ELSE Let(rr(self, instruction.op_b, "B"), LAMBDA rb :
         IF PcPlus4Aborts(rb.self, h) THEN Fatal(rb.self)
         ELSE Let(wrapping_add(self.state.pc, W(4)), LAMBDA a :
              Arm(rw(rb.self, instruction.op_a, a), a, rb.value, instruction.op_c,
                  wrapping_add(rb.value, instruction.op_c), None)))

ExecuteAuipc(self, instruction) ==
    IF ~j_type_ok(instruction) THEN Fatal(self)
    ELSE Let(wrapping_add(self.state.pc, instruction.op_b), LAMBDA a :
         Arm(rw(self, instruction.op_a, a), a, instruction.op_b, instruction.op_b,
             wrapping_add(self.state.pc, W(4)), None))

\* a variant that does not take over the handler's clock
AfterSyscallKeepsClk(r, init_clk, num_extra_cycles) ==
    IF r.self.panicked THEN Fatal(r.self)
    ELSE IF init_clk + num_extra_cycles # r.clk THEN Fatal(r.self)
    ELSE Let(rr(rw(r.self, X10, r.a), X5, "B"), LAMBDA rb :
         Arm(rb.self, r.a, rb.value, W(0), r.next_pc, None))

\* AfterSyscall that ignores the handler's next_pc and falls through to the
\* instruction after the ECALL
AfterSyscallFallsThrough(r, init_clk, num_extra_cycles) ==
    IF r.self.panicked THEN Fatal(r.self)
    ELSE Let([r.self EXCEPT !.state.clk = r.clk], LAMBDA s1 :
         IF init_clk + num_extra_cycles # s1.state.clk THEN Fatal(s1)
         ELSE Let(rr(rw(s1, X10, r.a), X5, "B"), LAMBDA rb :
              Arm(rb.self, r.a, rb.value, W(0), wrapping_add(s1.state.pc, W(4)), None)))

\* the tail of the ECALL arm: the assertion on clk, then rw(a0) and rr(t0)
AfterSyscall(r, init_clk, num_extra_cycles) ==
    IF r.self.panicked THEN Fatal(r.self)
    ELSE Let([r.self EXCEPT !.state.clk = r.clk], LAMBDA s1 :
         IF init_clk + num_extra_cycles # s1.state.clk THEN Fatal(s1)
         ELSE Let(rr(rw(s1, X10, r.a), X5, "B"), LAMBDA rb :
              Arm(rb.self, r.a, rb.value, W(0), r.next_pc, None)))

ExecuteEcall(self, h) ==
    Let(word(self, X5), LAMBDA syscall_id :
    IF syscall_id \notin DOMAIN syscall_map THEN Fatal(self)
    ELSE AfterSyscall(SyscallExecute(self, syscall_id, h), self.state.clk,
                      syscall_map[syscall_id].num_extra_cycles))

\* Dispatch with EBREAK as an instruction that does nothing (no abort)
DispatchEbreakNoOp(s0, instruction, next_pc, h) ==
    CASE instruction.opcode \in AluOpcodes -> ExecuteAlu(s0, instruction, next_pc)
      [] instruction.opcode \in LoadOpcodes -> ExecuteLoad(s0, instruction, next_pc)
      [] instruction.opcode \in StoreOpcodes -> ExecuteStore(s0, instruction, next_pc)
      [] instruction.opcode \in BranchOpcodes -> ExecuteBranch(s0, instruction, next_pc)
      [] instruction.opcode = "JAL" -> ExecuteJal(s0, instruction, h)
      [] instruction.opcode = "JALR" -> ExecuteJalr(s0, instruction, h)
      [] instruction.opcode = "AUIPC" -> ExecuteAuipc(s0, instruction)
      [] instruction.opcode = "ECALL" -> ExecuteEcall(s0, h)
      [] instruction.opcode = "EBREAK" -> Arm(s0, W(0), W(0), W(0), next_pc, None)
      [] instruction.opcode = "UNIMP" -> Fatal(s0)

\* the match on the opcode
Dispatch(s0, instruction, next_pc, h) ==
    CASE instruction.opcode \in AluOpcodes -> ExecuteAlu(s0, instruction, next_pc)
      [] instruction.opcode \in LoadOpcodes -> ExecuteLoad(s0, instruction, next_pc)
      [] instruction.opcode \in StoreOpcodes -> ExecuteStore(s0, instruction, next_pc)
      [] instruction.opcode \in BranchOpcodes -> ExecuteBranch(s0, instruction, next_pc)
      [] instruction.opcode = "JAL" -> ExecuteJal(s0, instruction, h)
      [] instruction.opcode = "JALR" -> ExecuteJalr(s0, instruction, h)
      [] instruction.opcode = "AUIPC" -> ExecuteAuipc(s0, instruction)
      [] instruction.opcode = "ECALL" -> ExecuteEcall(s0, h)
      [] instruction.opcode \in {"EBREAK", "UNIMP"} -> Fatal(s0)

\* execute that reports in the event what the register op_a holds afterwards
executeReportsRegister(self, instruction, h) ==
    Let(Dispatch([self EXCEPT !.cpu_record = CpuRecordDefault], instruction,
                 wrapping_add(self.state.pc, W(4)), h),
        LAMBDA r :
    IF r.self.panicked THEN r.self
    ELSE Let([r.self EXCEPT !.state.pc = r.next_pc], LAMBDA s1 :
         emit_cpu(s1, current_shard(s1), s1.state.clk, self.state.pc, instruction,
                  IF IsRegister(instruction.op_a) THEN word(s1, instruction.op_a)
                  ELSE r.a,
                  r.b, r.c, r.memory_store_value, s1.cpu_record)))

execute(self, instruction, h) ==
    Let(Dispatch([self EXCEPT !.cpu_record = CpuRecordDefault], instruction,
                 wrapping_add(self.state.pc, W(4)), h),
        LAMBDA r :
    IF r.self.panicked THEN r.self
    ELSE Let([r.self EXCEPT !.state.pc = r.next_pc], LAMBDA s1 :
         emit_cpu(s1, current_shard(s1), s1.state.clk, self.state.pc, instruction,
                  r.a, r.b, r.c, r.memory_store_value, s1.cpu_record)))

(***************************************************************************)
(* Runtime::postprocess.                                                   *)
(***************************************************************************)
RECURSIVE SortedByAddr(_)
\* the addresses of a set in increasing u32 order (sort_by_key on the address)
SortedByAddr(S) ==
    IF S = {} THEN <<>>
    ELSE LET least == CHOOSE x \in S : \A y \in S : y = x \/ LtU(x, y)
         IN  <<least>> \o SortedByAddr(S \ {least})

Reverse(seq) == [i \in 1..Len(seq) |-> seq[Len(seq) + 1 - i]]

\* The orders in which the live memory map hands out its keys.  The map is a
\* hash map and its order is unspecified; two orders are explored.
KeyOrders(memory) ==
    {SortedByAddr(DOMAIN memory), Reverse(SortedByAddr(DOMAIN memory))}

MemoryRecord(value, shard, timestamp) ==
    [value |-> value, shard |-> shard, timestamp |-> timestamp]

\* a variant that never marks an image address as unused
ProgramMemoryUsedNeverCleared(self) ==
    [addr \in DOMAIN self.program.memory_image |->
        <<self.program.memory_image[addr], 1>>]

\* program_memory_used after the loop over memory_keys
ProgramMemoryUsed(self) ==
    LET image == self.program.memory_image
        unused == {addr \in DOMAIN self.state.memory :
                      self.state.memory[addr][2] = 0 /\ self.state.memory[addr][3] = 0}
    IN  [addr \in DOMAIN image \cup unused |->
            IF addr \in unused THEN <<self.state.memory[addr][1], 0>>
            ELSE <<image[addr], 1>>]

\* a variant without the test for the image
RECURSIVE FirstRecordsOfImageToo(_, _)
FirstRecordsOfImageToo(self, keys) ==
    IF keys = <<>> THEN <<>>
    ELSE LET addr == Head(keys)
             e == self.state.memory[addr]
         IN  IF e[2] = 0 /\ e[3] = 0 THEN FirstRecordsOfImageToo(self, Tail(keys))
             ELSE <<<<addr, MemoryRecord(W(0), 0, 0), 1>>>>
                      \o FirstRecordsOfImageToo(self, Tail(keys))

RECURSIVE FirstRecords(_, _)
FirstRecords(self, keys) ==
    IF keys = <<>> THEN <<>>
    ELSE LET addr == Head(keys)
             e == self.state.memory[addr]
         IN  IF e[2] = 0 /\ e[3] = 0 THEN FirstRecords(self, Tail(keys))
             ELSE IF addr \notin DOMAIN self.program.memory_image
             THEN <<<<addr, MemoryRecord(W(0), 0, 0), 1>>>> \o FirstRecords(self, Tail(keys))
             ELSE FirstRecords(self, Tail(keys))

\* a variant that pushes the last record under the test for the image
RECURSIVE LastRecordsOutsideImage(_, _)
LastRecordsOutsideImage(self, keys) ==
    IF keys = <<>> THEN <<>>
    ELSE LET addr == Head(keys)
             e == self.state.memory[addr]
         IN  IF (e[2] = 0 /\ e[3] = 0) \/ addr \in DOMAIN self.program.memory_image
             THEN LastRecordsOutsideImage(self, Tail(keys))
             ELSE <<<<addr, MemoryRecord(e[1], e[2], e[3]), 1>>>>
                      \o LastRecordsOutsideImage(self, Tail(keys))

RECURSIVE LastRecords(_, _)
LastRecords(self, keys) ==
    IF keys = <<>> THEN <<>>
    ELSE LET addr == Head(keys)
             e == self.state.memory[addr]
         IN  IF e[2] = 0 /\ e[3] = 0 THEN LastRecords(self, Tail(keys))
             ELSE <<<<addr, MemoryRecord(e[1], e[2], e[3]), 1>>>>
                      \o LastRecords(self, Tail(keys))

ProgramRecords(self) ==
    LET used == ProgramMemoryUsed(self)
        sorted == SortedByAddr(DOMAIN used)
    IN  [i \in 1..Len(sorted) |->
            <<sorted[i], MemoryRecord(used[sorted[i]][1], 0, 0), used[sorted[i]][2]>>]

\* postprocess that leaves program_memory_record as it was (empty)
postprocessWithoutProgramRecord(self, memory_keys) ==
    [self EXCEPT !.record.first_memory_record = FirstRecords(self, memory_keys),
                 !.record.last_memory_record = LastRecords(self, memory_keys)]

postprocess(self, memory_keys) ==
    [self EXCEPT !.record.first_memory_record = FirstRecords(self, memory_keys),
                 !.record.last_memory_record = LastRecords(self, memory_keys),
                 !.record.program_memory_record = ProgramRecords(self)]

(***************************************************************************)
(* Programs explored.                                                      *)
(***************************************************************************)

\* addi rd, x0, imm
LI(rd, imm) == Instruction("ADD", rd, X0, imm, FALSE, TRUE)
ECALL == Instruction("ECALL", X10, X5, W(0), FALSE, TRUE)
EBREAK == Instruction("EBREAK", X0, W(0), W(0), FALSE, FALSE)
UNIMP == Instruction("UNIMP", X0, W(0), W(0), TRUE, TRUE)

\* 0x12348765
Word12348765 == <<101, 135, 52, 18>>
\* -8 as a u32
MinusEight == <<248, 255, 255, 255>>

\* A program image with one word a program reads (48) and one it never
\* touches (52); address 44 is outside the image.
MemoryImages == {(W(48) :> Word12348765) @@ (W(52) :> W(110))}

GeneralInstructions ==
    { LI(Reg(11), W(49)),
      Instruction("ADD", Reg(11), Reg(11), Reg(11), FALSE, FALSE),
      Instruction("SUB", X0, Reg(11), X5, FALSE, FALSE),
      Instruction("SW", Reg(11), X0, W(44), FALSE, TRUE),
      Instruction("SW", Reg(11), X0, W(8), FALSE, TRUE),
      Instruction("LB", X10, Reg(11), W(0), FALSE, TRUE),
      Instruction("LW", X0, X0, W(48), FALSE, TRUE),
      Instruction("BNE", Reg(11), X0, MinusEight, FALSE, TRUE),
      Instruction("JALR", X0, Reg(11), W(8), FALSE, TRUE) }

SyscallInstructions ==
    { LI(X5, W(102)), LI(X5, W(77)), ECALL, EBREAK, UNIMP,
      Instruction("AUIPC", X0, W(4), W(4), TRUE, TRUE),
      Instruction("JAL", X0, W(8), W(0), TRUE, TRUE) }

ForkBodyInstructions ==
    { LI(X5, W(111)), ECALL,
      Instruction("SW", X10, X0, W(44), FALSE, TRUE),
      Instruction("LW", Reg(11), X0, W(48), FALSE, TRUE),
      Instruction("ADD", Reg(11), Reg(11), X5, FALSE, FALSE) }

SeqsUpTo(S, n) == UNION {[1..k -> S] : k \in 1..n}


\* tests::neg
neg(a) == wrapping_add(wrapping_sub(U32Max, a), W(1))

\* the calls of simple_op_code_test in tests::division_tests
division_tests ==
    { <<"DIVU", W(3), W(20), W(6)>>,
      <<"DIVU", W(715827879), neg(W(20)), W(6)>>,
      <<"DIVU", W(0), W(20), neg(W(6))>>,
      <<"DIVU", W(0), neg(W(20)), neg(W(6))>>,
      <<"DIVU", I32Min, I32Min, W(1)>>,
      <<"DIVU", W(0), I32Min, neg(W(1))>>,
      <<"DIVU", U32Max, I32Min, W(0)>>,
      <<"DIVU", U32Max, W(1), W(0)>>,
      <<"DIVU", U32Max, W(0), W(0)>>,
      <<"DIV", W(3), W(18), W(6)>>,
      <<"DIV", neg(W(6)), neg(W(24)), W(4)>>,
      <<"DIV", neg(W(2)), W(16), neg(W(8))>>,
      <<"DIV", neg(W(1)), W(0), W(0)>>,
      <<"DIV", I32Min, I32Min, neg(W(1))>>,
      <<"REM", W(0), I32Min, neg(W(1))>> }

\* the calls of simple_op_code_test in tests::remainder_tests
remainder_tests ==
    { <<"REM", W(7), W(16), W(9)>>,
      <<"REM", neg(W(4)), neg(W(22)), W(6)>>,
      <<"REM", W(1), W(25), neg(W(3))>>,
      <<"REM", neg(W(2)), neg(W(22)), neg(W(4))>>,
      <<"REM", W(0), W(873), W(1)>>,
      <<"REM", W(0), W(873), neg(W(1))>>,
      <<"REM", W(5), W(5), W(0)>>,
      <<"REM", neg(W(5)), neg(W(5)), W(0)>>,
      <<"REM", W(0), W(0), W(0)>>,
      <<"REMU", W(4), W(18), W(7)>>,
      <<"REMU", W(6), neg(W(20)), W(11)>>,
      <<"REMU", W(23), W(23), neg(W(6))>>,
      <<"REMU", neg(W(21)), neg(W(21)), neg(W(11))>>,
      <<"REMU", W(5), W(5), W(0)>>,
      <<"REMU", neg(W(1)), neg(W(1)), W(0)>>,
      <<"REMU", W(0), W(0), W(0)>> }

\* the operand pairs of those tests, each given to each of the four opcodes

\* the program of tests::simple_op_code_test
simple_op_code_test(opcode, a, b) ==
    << Instruction("ADD", X10, X0, a, FALSE, TRUE),
       Instruction("ADD", Reg(11), X0, b, FALSE, TRUE),
       Instruction(opcode, Reg(12), X10, Reg(11), FALSE, FALSE) >>

DivRemPrograms ==
    {simple_op_code_test(opcode, ab[1], ab[2]) :
         opcode \in DivRemOpcodes, ab \in {<<t[3], t[4]>> : t \in division_tests \cup remainder_tests}}

\* the calls of simple_op_code_test in tests::shift_tests, as
\* <<opcode, expected, a, b>>
shift_tests ==
    { <<"SLL", <<1, 0, 0, 0>>, <<1, 0, 0, 0>>, <<0, 0, 0, 0>> >>,
      <<"SLL", <<2, 0, 0, 0>>, <<1, 0, 0, 0>>, <<1, 0, 0, 0>> >>,
      <<"SLL", <<128, 0, 0, 0>>, <<1, 0, 0, 0>>, <<7, 0, 0, 0>> >>,
      <<"SLL", <<0, 64, 0, 0>>, <<1, 0, 0, 0>>, <<14, 0, 0, 0>> >>,
      <<"SLL", <<0, 0, 0, 128>>, <<1, 0, 0, 0>>, <<31, 0, 0, 0>> >>,
      <<"SLL", <<255, 255, 255, 255>>, <<255, 255, 255, 255>>, <<0, 0, 0, 0>> >>,
      <<"SLL", <<254, 255, 255, 255>>, <<255, 255, 255, 255>>, <<1, 0, 0, 0>> >>,
      <<"SLL", <<128, 255, 255, 255>>, <<255, 255, 255, 255>>, <<7, 0, 0, 0>> >>,
      <<"SLL", <<0, 192, 255, 255>>, <<255, 255, 255, 255>>, <<14, 0, 0, 0>> >>,
      <<"SLL", <<0, 0, 0, 128>>, <<255, 255, 255, 255>>, <<31, 0, 0, 0>> >>,
      <<"SLL", <<33, 33, 33, 33>>, <<33, 33, 33, 33>>, <<0, 0, 0, 0>> >>,
      <<"SLL", <<66, 66, 66, 66>>, <<33, 33, 33, 33>>, <<1, 0, 0, 0>> >>,
      <<"SLL", <<128, 144, 144, 144>>, <<33, 33, 33, 33>>, <<7, 0, 0, 0>> >>,
      <<"SLL", <<0, 64, 72, 72>>, <<33, 33, 33, 33>>, <<14, 0, 0, 0>> >>,
      <<"SLL", <<0, 0, 0, 128>>, <<33, 33, 33, 33>>, <<31, 0, 0, 0>> >>,
      <<"SLL", <<33, 33, 33, 33>>, <<33, 33, 33, 33>>, <<224, 255, 255, 255>> >>,
      <<"SLL", <<66, 66, 66, 66>>, <<33, 33, 33, 33>>, <<225, 255, 255, 255>> >>,
      <<"SLL", <<128, 144, 144, 144>>, <<33, 33, 33, 33>>, <<231, 255, 255, 255>> >>,
      <<"SLL", <<0, 64, 72, 72>>, <<33, 33, 33, 33>>, <<238, 255, 255, 255>> >>,
      <<"SLL", <<0, 0, 0, 0>>, <<32, 33, 33, 33>>, <<255, 255, 255, 255>> >>,
      <<"SRL", <<0, 128, 255, 255>>, <<0, 128, 255, 255>>, <<0, 0, 0, 0>> >>,
      <<"SRL", <<0, 192, 255, 127>>, <<0, 128, 255, 255>>, <<1, 0, 0, 0>> >>,
      <<"SRL", <<0, 255, 255, 1>>, <<0, 128, 255, 255>>, <<7, 0, 0, 0>> >>,
      <<"SRL", <<254, 255, 3, 0>>, <<0, 128, 255, 255>>, <<14, 0, 0, 0>> >>,
      <<"SRL", <<255, 255, 1, 0>>, <<1, 128, 255, 255>>, <<15, 0, 0, 0>> >>,
      <<"SRL", <<255, 255, 255, 255>>, <<255, 255, 255, 255>>, <<0, 0, 0, 0>> >>,
      <<"SRL", <<255, 255, 255, 127>>, <<255, 255, 255, 255>>, <<1, 0, 0, 0>> >>,
      <<"SRL", <<255, 255, 255, 1>>, <<255, 255, 255, 255>>, <<7, 0, 0, 0>> >>,
      <<"SRL", <<255, 255, 3, 0>>, <<255, 255, 255, 255>>, <<14, 0, 0, 0>> >>,
      <<"SRL", <<1, 0, 0, 0>>, <<255, 255, 255, 255>>, <<31, 0, 0, 0>> >>,
      <<"SRL", <<33, 33, 33, 33>>, <<33, 33, 33, 33>>, <<0, 0, 0, 0>> >>,
      <<"SRL", <<144, 144, 144, 16>>, <<33, 33, 33, 33>>, <<1, 0, 0, 0>> >>,
      <<"SRL", <<66, 66, 66, 0>>, <<33, 33, 33, 33>>, <<7, 0, 0, 0>> >>,
      <<"SRL", <<132, 132, 0, 0>>, <<33, 33, 33, 33>>, <<14, 0, 0, 0>> >>,
      <<"SRL", <<0, 0, 0, 0>>, <<33, 33, 33, 33>>, <<31, 0, 0, 0>> >>,
      <<"SRL", <<33, 33, 33, 33>>, <<33, 33, 33, 33>>, <<224, 255, 255, 255>> >>,
      <<"SRL", <<144, 144, 144, 16>>, <<33, 33, 33, 33>>, <<225, 255, 255, 255>> >>,
      <<"SRL", <<66, 66, 66, 0>>, <<33, 33, 33, 33>>, <<231, 255, 255, 255>> >>,
      <<"SRL", <<132, 132, 0, 0>>, <<33, 33, 33, 33>>, <<238, 255, 255, 255>> >>,
      <<"SRL", <<0, 0, 0, 0>>, <<33, 33, 33, 33>>, <<255, 255, 255, 255>> >>,
      <<"SRA", <<0, 0, 0, 0>>, <<0, 0, 0, 0>>, <<0, 0, 0, 0>> >>,
      <<"SRA", <<0, 0, 0, 192>>, <<0, 0, 0, 128>>, <<1, 0, 0, 0>> >>,
      <<"SRA", <<0, 0, 0, 255>>, <<0, 0, 0, 128>>, <<7, 0, 0, 0>> >>,
      <<"SRA", <<0, 0, 254, 255>>, <<0, 0, 0, 128>>, <<14, 0, 0, 0>> >>,
      <<"SRA", <<255, 255, 255, 255>>, <<1, 0, 0, 128>>, <<31, 0, 0, 0>> >>,
      <<"SRA", <<255, 255, 255, 127>>, <<255, 255, 255, 127>>, <<0, 0, 0, 0>> >>,
      <<"SRA", <<255, 255, 255, 63>>, <<255, 255, 255, 127>>, <<1, 0, 0, 0>> >>,
      <<"SRA", <<255, 255, 255, 0>>, <<255, 255, 255, 127>>, <<7, 0, 0, 0>> >>,
      <<"SRA", <<255, 255, 1, 0>>, <<255, 255, 255, 127>>, <<14, 0, 0, 0>> >>,
      <<"SRA", <<0, 0, 0, 0>>, <<255, 255, 255, 127>>, <<31, 0, 0, 0>> >>,
      <<"SRA", <<129, 129, 129, 129>>, <<129, 129, 129, 129>>, <<0, 0, 0, 0>> >>,
      <<"SRA", <<192, 192, 192, 192>>, <<129, 129, 129, 129>>, <<1, 0, 0, 0>> >>,
      <<"SRA", <<3, 3, 3, 255>>, <<129, 129, 129, 129>>, <<7, 0, 0, 0>> >>,
      <<"SRA", <<6, 6, 254, 255>>, <<129, 129, 129, 129>>, <<14, 0, 0, 0>> >>,
      <<"SRA", <<255, 255, 255, 255>>, <<129, 129, 129, 129>>, <<31, 0, 0, 0>> >> }

\* the operand pairs of those tests, each given to each of the three shifts

ShiftPrograms ==
    {simple_op_code_test(opcode, ab[1], ab[2]) :
         opcode \in ShiftOpcodes, ab \in {<<t[3], t[4]>> : t \in shift_tests}}

\* the calls of simple_op_code_test in tests::multiplication_tests, as <<opcode, expected, a, b>>
multiplication_tests ==
    { <<"MULHU", <<0, 0, 0, 0>>, <<0, 0, 0, 0>>, <<0, 0, 0, 0>> >>,
      <<"MULHU", <<0, 0, 0, 0>>, <<1, 0, 0, 0>>, <<1, 0, 0, 0>> >>,
      <<"MULHU", <<0, 0, 0, 0>>, <<3, 0, 0, 0>>, <<7, 0, 0, 0>> >>,
      <<"MULHU", <<0, 0, 0, 0>>, <<0, 0, 0, 0>>, <<0, 128, 255, 255>> >>,
      <<"MULHU", <<0, 0, 0, 0>>, <<0, 0, 0, 128>>, <<0, 0, 0, 0>> >>,
      <<"MULHU", <<0, 192, 255, 127>>, <<0, 0, 0, 128>>, <<0, 128, 255, 255>> >>,
      <<"MULHU", <<254, 254, 1, 0>>, <<171, 170, 170, 170>>, <<125, 254, 2, 0>> >>,
      <<"MULHU", <<254, 254, 1, 0>>, <<125, 254, 2, 0>>, <<171, 170, 170, 170>> >>,
      <<"MULHU", <<0, 0, 1, 254>>, <<0, 0, 0, 255>>, <<0, 0, 0, 255>> >>,
      <<"MULHU", <<254, 255, 255, 255>>, <<255, 255, 255, 255>>, <<255, 255, 255, 255>> >>,
      <<"MULHU", <<0, 0, 0, 0>>, <<255, 255, 255, 255>>, <<1, 0, 0, 0>> >>,
      <<"MULHU", <<0, 0, 0, 0>>, <<1, 0, 0, 0>>, <<255, 255, 255, 255>> >>,
      <<"MULHSU", <<0, 0, 0, 0>>, <<0, 0, 0, 0>>, <<0, 0, 0, 0>> >>,
      <<"MULHSU", <<0, 0, 0, 0>>, <<1, 0, 0, 0>>, <<1, 0, 0, 0>> >>,
      <<"MULHSU", <<0, 0, 0, 0>>, <<3, 0, 0, 0>>, <<7, 0, 0, 0>> >>,
      <<"MULHSU", <<0, 0, 0, 0>>, <<0, 0, 0, 0>>, <<0, 128, 255, 255>> >>,
      <<"MULHSU", <<0, 0, 0, 0>>, <<0, 0, 0, 128>>, <<0, 0, 0, 0>> >>,
      <<"MULHSU", <<0, 64, 0, 128>>, <<0, 0, 0, 128>>, <<0, 128, 255, 255>> >>,
      <<"MULHSU", <<129, 0, 255, 255>>, <<171, 170, 170, 170>>, <<125, 254, 2, 0>> >>,
      <<"MULHSU", <<254, 254, 1, 0>>, <<125, 254, 2, 0>>, <<171, 170, 170, 170>> >>,
      <<"MULHSU", <<0, 0, 1, 255>>, <<0, 0, 0, 255>>, <<0, 0, 0, 255>> >>,
      <<"MULHSU", <<255, 255, 255, 255>>, <<255, 255, 255, 255>>, <<255, 255, 255, 255>> >>,
      <<"MULHSU", <<255, 255, 255, 255>>, <<255, 255, 255, 255>>, <<1, 0, 0, 0>> >>,
      <<"MULHSU", <<0, 0, 0, 0>>, <<1, 0, 0, 0>>, <<255, 255, 255, 255>> >>,
      <<"MULH", <<0, 0, 0, 0>>, <<0, 0, 0, 0>>, <<0, 0, 0, 0>> >>,
      <<"MULH", <<0, 0, 0, 0>>, <<1, 0, 0, 0>>, <<1, 0, 0, 0>> >>,
      <<"MULH", <<0, 0, 0, 0>>, <<3, 0, 0, 0>>, <<7, 0, 0, 0>> >>,
      <<"MULH", <<0, 0, 0, 0>>, <<0, 0, 0, 0>>, <<0, 128, 255, 255>> >>,
      <<"MULH", <<0, 0, 0, 0>>, <<0, 0, 0, 128>>, <<0, 0, 0, 0>> >>,
      <<"MULH", <<0, 0, 0, 0>>, <<0, 0, 0, 128>>, <<0, 0, 0, 0>> >>,
      <<"MULH", <<129, 0, 255, 255>>, <<171, 170, 170, 170>>, <<125, 254, 2, 0>> >>,
      <<"MULH", <<129, 0, 255, 255>>, <<125, 254, 2, 0>>, <<171, 170, 170, 170>> >>,
      <<"MULH", <<0, 0, 1, 0>>, <<0, 0, 0, 255>>, <<0, 0, 0, 255>> >>,
      <<"MULH", <<0, 0, 0, 0>>, <<255, 255, 255, 255>>, <<255, 255, 255, 255>> >>,
      <<"MULH", <<255, 255, 255, 255>>, <<255, 255, 255, 255>>, <<1, 0, 0, 0>> >>,
      <<"MULH", <<255, 255, 255, 255>>, <<1, 0, 0, 0>>, <<255, 255, 255, 255>> >>,
      <<"MUL", <<0, 18, 0, 0>>, <<0, 126, 0, 0>>, <<183, 109, 219, 182>> >>,
      <<"MUL", <<64, 18, 0, 0>>, <<192, 127, 0, 0>>, <<183, 109, 219, 182>> >>,
      <<"MUL", <<0, 0, 0, 0>>, <<0, 0, 0, 0>>, <<0, 0, 0, 0>> >>,
      <<"MUL", <<1, 0, 0, 0>>, <<1, 0, 0, 0>>, <<1, 0, 0, 0>> >>,
      <<"MUL", <<21, 0, 0, 0>>, <<3, 0, 0, 0>>, <<7, 0, 0, 0>> >>,
      <<"MUL", <<0, 0, 0, 0>>, <<0, 0, 0, 0>>, <<0, 128, 255, 255>> >>,
      <<"MUL", <<0, 0, 0, 0>>, <<0, 0, 0, 128>>, <<0, 0, 0, 0>> >>,
      <<"MUL", <<0, 0, 0, 0>>, <<0, 0, 0, 128>>, <<0, 128, 255, 255>> >>,
      <<"MUL", <<127, 255, 0, 0>>, <<171, 170, 170, 170>>, <<125, 254, 2, 0>> >>,
      <<"MUL", <<127, 255, 0, 0>>, <<125, 254, 2, 0>>, <<171, 170, 170, 170>> >>,
      <<"MUL", <<0, 0, 0, 0>>, <<0, 0, 0, 255>>, <<0, 0, 0, 255>> >>,
      <<"MUL", <<1, 0, 0, 0>>, <<255, 255, 255, 255>>, <<255, 255, 255, 255>> >>,
      <<"MUL", <<255, 255, 255, 255>>, <<255, 255, 255, 255>>, <<1, 0, 0, 0>> >>,
      <<"MUL", <<255, 255, 255, 255>>, <<1, 0, 0, 0>>, <<255, 255, 255, 255>> >> }


MulPrograms ==
    {simple_op_code_test(opcode, ab[1], ab[2]) :
         opcode \in MulOpcodes, ab \in {<<t[3], t[4]>> : t \in multiplication_tests}}


\* 0x38276525
Word38276525 == <<37, 101, 39, 56>>
\* 0x27654320 + k and 0x43627530 + k, for k in 0..3
Addr27654320(k) == <<32 + k, 67, 101, 39>>
Addr43627530(k) == <<48 + k, 117, 98, 67>>

\* tests::simple_memory_program cut into runs of at most six instructions:
\* the word 0x12348765 is stored at 0x27654320 and one load reads it back at
\* byte offset k
simple_memory_program_load(opcode, k) ==
    << Instruction("ADD", Reg(29), X0, Word12348765, FALSE, TRUE),
       Instruction("SW", Reg(29), X0, Addr27654320(0), FALSE, TRUE),
       Instruction(opcode, Reg(28), X0, Addr27654320(k), FALSE, TRUE) >>

\* ... and the word is stored at 0x43627530, the given stores of Reg(17) =
\* 0x38276525 splice it, and LW reads it back
simple_memory_program_store(stores) ==
    << Instruction("ADD", Reg(29), X0, Word12348765, FALSE, TRUE),
       Instruction("ADD", Reg(17), X0, Word38276525, FALSE, TRUE),
       Instruction("SW", Reg(29), X0, Addr43627530(0), FALSE, TRUE) >>
    \o stores
    \o << Instruction("LW", Reg(16), X0, Addr43627530(0), FALSE, TRUE) >>

StoreX17(opcode, k) == Instruction(opcode, Reg(17), X0, Addr43627530(k), FALSE, TRUE)

MemoryPrograms ==
    {simple_memory_program_load(opcode, k) : opcode \in LoadOpcodes, k \in 0..3}
        \cup {simple_memory_program_store(<<StoreX17(opcode, k)>>) :
                 opcode \in StoreOpcodes, k \in 0..3}
        \cup {simple_memory_program_store(<<StoreX17("SB", 0), StoreX17("SB", 1)>>),
              simple_memory_program_store(<<StoreX17("SH", 0), StoreX17("SH", 2)>>)}

\* the registers tests::test_simple_memory_program_run looks at, as
\* <<opcode, byte offset, expected value>> of the load that filled them
simple_memory_program_loads ==
    { <<"LW", 0, Word12348765>>,
      <<"LBU", 0, W(101)>>, <<"LBU", 1, W(135)>>, <<"LBU", 2, W(52)>>, <<"LBU", 3, W(18)>>,
      <<"LB", 0, W(101)>>, <<"LB", 1, <<135, 255, 255, 255>> >>,
      <<"LHU", 0, <<101, 135, 0, 0>> >>, <<"LHU", 2, <<52, 18, 0, 0>> >>,
      <<"LH", 0, <<101, 135, 255, 255>> >>, <<"LH", 2, <<52, 18, 0, 0>> >> }

\* ... and, for the stores done after SW 0x12348765, the word LW then reads
simple_memory_program_stores ==
    { << <<StoreX17("SB", 0)>>, <<37, 135, 52, 18>> >>,
      << <<StoreX17("SB", 0), StoreX17("SB", 1)>>, <<37, 37, 52, 18>> >>,
      << <<StoreX17("SH", 0)>>, <<37, 101, 52, 18>> >>,
      << <<StoreX17("SH", 0), StoreX17("SH", 2)>>, <<37, 101, 37, 101>> >> }

\* two ways into an unconstrained region: the syscall code as an immediate, or
\* loaded from the image word at 52
ForkPrefixes ==
    { <<LI(X5, W(110)), ECALL>>,
      <<Instruction("LW", X5, X0, W(52), FALSE, TRUE), ECALL>> }

\* -4 as a u32, and the base 0xFFFFFFF8 of a program whose second instruction
\* is the last word of the address space
MinusFour == <<252, 255, 255, 255>>
HighBase == <<248, 255, 255, 255>>

\* the program of tests::test_jalr, and the same with other jumps in the place
\* of JALR X5, Reg(11), 8
test_jalr(jump) == << Instruction("ADD", Reg(11), Reg(11), W(100), FALSE, TRUE), jump >>

JumpInstructions ==
    { Instruction("JALR", X5, Reg(11), W(8), FALSE, TRUE),
      Instruction("JALR", Reg(11), Reg(11), W(8), FALSE, TRUE),
      Instruction("JALR", X5, Reg(11), <<160, 255, 255, 255>>, FALSE, TRUE),
      Instruction("JALR", X5, Reg(11), <<162, 255, 255, 255>>, FALSE, TRUE),
      Instruction("JAL", X5, W(8), W(0), TRUE, TRUE),
      Instruction("JAL", X5, MinusFour, W(0), TRUE, TRUE) }

JumpPrograms ==
    {[instructions |-> test_jalr(jump), pc_base |-> base, pc_start |-> base,
      memory_image |-> image] :
        jump \in JumpInstructions, base \in {W(0), HighBase}, image \in MemoryImages}


\* the program of tests::test_add
test_add ==
    << Instruction("ADD", Reg(29), X0, W(5), FALSE, TRUE),
       Instruction("ADD", Reg(30), X0, W(37), FALSE, TRUE),
       Instruction("ADD", Reg(31), Reg(30), Reg(29), FALSE, FALSE) >>

\* Program::new(test_add, pc_start, pc_base): at the bottom and at the top of
\* the address space, entered at its first or at its second instruction
AddPrograms ==
    {[instructions |-> test_add, pc_base |-> base,
      pc_start |-> wrapping_add(base, W(offset)), memory_image |-> image] :
        base \in {W(0), HighBase}, offset \in {0, 4}, image \in MemoryImages}

\* two registers set to a pair of values, then a branch on them, forward out
\* of the program or back to its start
BranchPrograms ==
    {<< LI(Reg(11), ab[1]), LI(Reg(12), ab[2]),
        Instruction(opcode, Reg(11), Reg(12), imm, FALSE, TRUE) >> :
        opcode \in BranchOpcodes, imm \in {W(8), MinusEight},
        ab \in {<<U32Max, W(1)>>, <<W(1), U32Max>>, <<W(5), W(5)>>,
                <<I32Min, <<255, 255, 255, 127>> >>}}

Programs ==
    LET bodies == SeqsUpTo(GeneralInstructions, MaxProgLen)
                      \cup SeqsUpTo(SyscallInstructions, MaxProgLen)
                      \cup DivRemPrograms
                      \cup MemoryPrograms
                      \cup ShiftPrograms
                      \cup MulPrograms
                      \cup BranchPrograms
                      \cup {prefix \o body :
                               prefix \in ForkPrefixes,
                               body \in SeqsUpTo(ForkBodyInstructions, MaxProgLen)}
    IN  {[instructions |-> body, pc_base |-> W(0), pc_start |-> W(0),
          memory_image |-> image] : body \in bodies, image \in MemoryImages}
            \cup JumpPrograms \cup AddPrograms

\* env::shard_size()
EnvShardSizes == {1, 2}

(***************************************************************************)
(* The state machine: Runtime::new, then run() as load, cycles, postprocess*)
(***************************************************************************)
Self ==
    [program |-> program, state |-> state, record |-> record,
     cpu_record |-> cpu_record, shard_size |-> shard_size,
     unconstrained |-> unconstrained, unconstrained_state |-> unconstrained_state,
     panicked |-> FALSE, hist |-> hist]

Becomes(self, next_phase) ==
    /\ program' = self.program
    /\ state' = self.state
    /\ record' = self.record
    /\ cpu_record' = self.cpu_record
    /\ shard_size' = self.shard_size
    /\ unconstrained' = self.unconstrained
    /\ unconstrained_state' = self.unconstrained_state
    /\ hist' = self.hist
    /\ phase' = IF self.panicked THEN "panicked" ELSE next_phase
    /\ UNCHANGED operation

\* ExecutionState::new(pc_start)
ExecutionStateNew(pc_start, first_shard) ==
    [global_clk |-> 0, current_shard |-> first_shard, clk |-> 0, pc |-> pc_start,
     memory |-> <<>>]

\* History only.  log: the calls of mr/mw; entry_memory, regions, exits: the
\* unconstrained regions; env_shard_size: what env::shard_size() returned;
\* cycle: the last iteration of the run loop that completed (the state it
\* started from and clk after `clk += 4`, before the shard check); syscall:
\* the last call of a handler (what it was given and what it handed back);
\* call, calls: the last direct call of mr_cpu/mw_cpu by a client of the
\* runtime (with whether the slot was occupied before it) and their number.
NoCycle == [global_clk |-> 0, clk |-> 0, current_shard |-> 0, pc |-> W(0),
            opcode |-> "none", unconstrained |-> FALSE, advanced_clk |-> 0]

NoSyscall == [id |-> W(0), init_clk |-> 0, clk |-> 0, next_pc |-> W(0), a |-> W(0),
              global_clk |-> 0]

(***************************************************************************)
(* FixedShiftRightOperation: `>>` of a word by a fixed number of bits, as  *)
(* a shift by whole bytes followed by a shift by bits within each byte.    *)
(* The columns hold field elements; every value computed here is below     *)
(* 2^16, far under the modulus, so they are written as naturals.           *)
(***************************************************************************)
WORD_SIZE == 4

\* FixedShiftRightOperation::default(): value, shift and carry, a word each
FixedShiftRightOperationDefault ==
    [value |-> <<0, 0, 0, 0>>, shift |-> <<0, 0, 0, 0>>, carry |-> <<0, 0, 0, 0>>]

nb_bytes_to_shift(rotation) == rotation \div 8

nb_bits_to_shift(rotation) == rotation % 8

\* a variant that weighs the carry by the bits shifted out: 1 << nb_bits
carry_multiplierOfBits(rotation) == 2 ^ nb_bits_to_shift(rotation)

\* 1 << (8 - nb_bits_to_shift)
carry_multiplier(rotation) == 2 ^ (8 - nb_bits_to_shift(rotation))

\* bytes::utils::shr_carry: the byte shifted right by rotation & 7 bits, and
\* the bits that fell off (both as u8: `<<` drops what leaves the byte)
shr_carry(input, rotation) ==
    LET c_mod == rotation % 8
    IN  IF c_mod # 0
        THEN [shift |-> input \div (2 ^ c_mod),
              carry |-> ((input * (2 ^ (8 - c_mod))) % 256) \div (2 ^ (8 - c_mod))]
        ELSE [shift |-> input, carry |-> 0]

\* record.add_byte_lookup_event(event): one more of this event
add_byte_lookup_event(rec, event) ==
    [rec EXCEPT !.byte_lookups =
        IF event \in DOMAIN @ THEN [@ EXCEPT ![event] = @ + 1] ELSE (event :> 1) @@ @]

RECURSIVE PopulateBytes(_, _, _, _)
\* the loop `for i in (0..WORD_SIZE).rev()` of populate, from byte i down:
\* acc holds the columns, the record, first_shift and last_carry
PopulateBytes(i, acc, input_bytes_rotated, rotation) ==
    IF i < 0 THEN acc
    ELSE
    Let(shr_carry(input_bytes_rotated[i + 1], nb_bits_to_shift(rotation)), LAMBDA sc :
    Let([acc EXCEPT
            !.record = add_byte_lookup_event(@,
                           [opcode |-> "ShrCarry", a1 |-> sc.shift, a2 |-> sc.carry,
                            b |-> input_bytes_rotated[i + 1],
                            c |-> nb_bits_to_shift(rotation)]),
            !.self.shift[i + 1] = sc.shift,
            !.self.carry[i + 1] = sc.carry,
            !.first_shift = IF i = WORD_SIZE - 1 THEN sc.shift ELSE @,
            !.self.value[i + 1] =
                IF i = WORD_SIZE - 1 THEN @
                ELSE sc.shift + acc.last_carry * carry_multiplier(rotation),
            !.last_carry = sc.carry], LAMBDA next :
    IF next.last_carry \in Byte
    THEN PopulateBytes(i - 1, next, input_bytes_rotated, rotation) ELSE next))

\* FixedShiftRightOperation::populate(&mut self, record, input, rotation):
\* the columns and the record afterwards, the word returned, and whether
\* the final assert_eq! failed (value.to_u32() reads each column as a u8)
populate(self, rec, input, rotation) ==
    LET expected == ShrBy(input, rotation, 0)
        input_bytes_rotated ==
            [i \in 1..WORD_SIZE |->
                IF (i - 1) + nb_bytes_to_shift(rotation) < WORD_SIZE
                THEN input[(((i - 1) + nb_bytes_to_shift(rotation)) % WORD_SIZE) + 1]
                ELSE 0]
    IN  Let(PopulateBytes(WORD_SIZE - 1,
                          [self |-> self, record |-> rec, first_shift |-> 0,
                           last_carry |-> 0],
                          input_bytes_rotated, rotation), LAMBDA done :
        Let([done.self EXCEPT !.value[WORD_SIZE] = done.first_shift], LAMBDA cols :
        [self |-> cols, record |-> done.record, returned |-> expected,
         panicked |-> cols.value # expected]))

NoPopulate == [calls |-> 0, input |-> W(0), rotation |-> 0, returned |-> W(0)]

NoCall == [kind |-> "none", addr |-> W(0), position |-> "none", occupied |-> FALSE,
           unconstrained |-> FALSE]

HistInit == [log |-> <<>>, entry_memory |-> <<>>, regions |-> 0, exits |-> 0,
             env_shard_size |-> 0, cycle |-> NoCycle, syscall |-> NoSyscall,
             call |-> NoCall, calls |-> 0, populate |-> NoPopulate]

Init ==
    /\ program \in Programs
    /\ \E first_shard \in {0, 1} : state = ExecutionStateNew(program.pc_start, first_shard)
    /\ record = ExecutionRecordDefault
    /\ cpu_record = CpuRecordDefault
    /\ \E e \in EnvShardSizes :
          /\ shard_size = e * 4
          /\ hist = [HistInit EXCEPT !.env_shard_size = e]
    /\ unconstrained = FALSE
    /\ unconstrained_state = ForkStateDefault
    /\ phase = "new"
    /\ operation = FixedShiftRightOperationDefault

\* the head of run() without `self.state.clk += 1`
LoadImageKeepsClk(self) ==
    [self EXCEPT !.state.memory =
                     [addr \in DOMAIN self.program.memory_image |->
                         <<self.program.memory_image[addr], 0, 0>>]]

\* the head of run(): load the image, advance clk once
LoadImage(self) ==
    [self EXCEPT !.state.memory =
                     [addr \in DOMAIN self.program.memory_image |->
                         <<self.program.memory_image[addr], 0, 0>>],
                 !.state.clk = @ + 1]

\* a loop condition that takes the pc as an offset, whatever pc_base is
InRangeFromZero(self) ==
    LtU(self.state.pc, W(Len(self.program.instructions) * 4))

\* the loop condition of run()
InRange(self) ==
    LtU(wrapping_sub(self.state.pc, self.program.pc_base),
        W(Len(self.program.instructions) * 4))

\* a variant that restarts the clock without moving to the next shard
RolloverKeepsShard(self) ==
    IF ~self.unconstrained /\ max_syscall_cycles + self.state.clk >= self.shard_size * 4
    THEN [self EXCEPT !.state.clk = 0]
    ELSE self

\* a variant that restarts the instruction count together with the clock
RolloverResetsGlobalClk(self) ==
    IF ~self.unconstrained /\ max_syscall_cycles + self.state.clk >= self.shard_size * 4
    THEN [self EXCEPT !.state.current_shard = @ + 1, !.state.clk = 0,
                      !.state.global_clk = 0]
    ELSE self

\* a variant that closes the shard one step late (`>` for `>=`)
RolloverStrictlyAbove(self) ==
    IF ~self.unconstrained /\ max_syscall_cycles + self.state.clk > self.shard_size * 4
    THEN [self EXCEPT !.state.current_shard = @ + 1, !.state.clk = 0]
    ELSE self

\* a variant that closes the shard in unconstrained mode too
RolloverWhileUnconstrained(self) ==
    IF max_syscall_cycles + self.state.clk >= self.shard_size * 4
    THEN [self EXCEPT !.state.current_shard = @ + 1, !.state.clk = 0]
    ELSE self

\* the shard check at the end of a cycle
Rollover(self) ==
    IF ~self.unconstrained /\ max_syscall_cycles + self.state.clk >= self.shard_size * 4
    THEN [self EXCEPT !.state.current_shard = @ + 1, !.state.clk = 0]
    ELSE self

\* fetch() computes `self.state.pc - self.program.pc_base` with the plain
\* operator, where the loop condition uses wrapping_sub: a build that checks
\* overflow aborts in fetch() when the pc has wrapped below pc_base
FetchAborts(self, h) == h.overflow_checks /\ LtU(self.state.pc, self.program.pc_base)

\* one iteration of the loop of run()
CycleOf(self, h) ==
    IF FetchAborts(self, h) THEN Panic(self)
    ELSE
    Let(execute(self, fetch(self), h), LAMBDA s1 :
    IF s1.panicked THEN s1
    ELSE Rollover([s1 EXCEPT !.state.global_clk = @ + 1, !.state.clk = @ + 4,
                             !.hist.cycle =
                                 [global_clk |-> self.state.global_clk,
                                  clk |-> self.state.clk,
                                  current_shard |-> self.state.current_shard,
                                  pc |-> self.state.pc,
                                  opcode |-> fetch(self).opcode,
                                  unconstrained |-> self.unconstrained,
                                  advanced_clk |-> s1.state.clk + 4]]))

Start ==
    /\ phase = "new"
    /\ Becomes(LoadImage(Self), "running")

\* What one iteration depends on besides the runtime: the behaviour of the
\* handler an ECALL calls, and whether the build checks `+` for overflow
\* (which only the JAL and JALR arms can notice, and fetch() below pc_base)
CycleInputs(instruction) ==
    {[honours |-> hb.honours, jumps |-> hb.jumps, overflow_checks |-> oc] :
        hb \in (IF instruction.opcode = "ECALL" THEN HandlerBehaviours
                ELSE {[honours |-> TRUE, jumps |-> FALSE]}),
        oc \in (IF instruction.opcode \in {"JAL", "JALR"} THEN BOOLEAN ELSE {FALSE})}

FetchInputs(self) ==
    IF LtU(self.state.pc, self.program.pc_base)
    THEN {[honours |-> TRUE, jumps |-> FALSE, overflow_checks |-> TRUE]}
    ELSE {}

Cycle ==
    /\ phase = "running"
    /\ InRange(Self)
    /\ state.global_clk < MaxSteps
    /\ \E h \in CycleInputs(fetch(Self)) \cup FetchInputs(Self) :
          \E next \in {CycleOf(Self, h)} : Becomes(next, "running")

Finish ==
    /\ phase = "running"
    /\ ~InRange(Self)
    /\ \E memory_keys \in KeyOrders(state.memory) :
          \E next \in {postprocess(Self, memory_keys)} : Becomes(next, "done")

Next == Start \/ Cycle \/ Finish

Spec == Init /\ [][Next]_vars

\* The runs of the programs of the source's tests (test_add, test_jalr, the
\* memory program) and of every program of one or two general instructions
\* or one or two syscall instructions.  run() is one sequential loop: while a
\* step of it is possible, one is taken.
OneOrTwo(instructions) ==
    {<<i>> : i \in instructions} \cup {<<i, j>> : i \in instructions, j \in instructions}

RunPrograms ==
    AddPrograms \cup JumpPrograms
        \cup {p \in Programs : p.instructions \in MemoryPrograms}
        \cup {p \in Programs :
                 p.instructions \in OneOrTwo(GeneralInstructions)
                                        \cup OneOrTwo(SyscallInstructions)}

InitRun == Init /\ program \in RunPrograms

SpecFair == InitRun /\ [][Next]_vars /\ WF_vars(Next)

(***************************************************************************)
(* Vocabulary of the properties.                                           *)
(***************************************************************************)
Log == hist.log

Stamp(rec) == <<rec.shard, rec.timestamp>>
PrevStamp(rec) == <<rec.prev_shard, rec.prev_timestamp>>

\* lexicographic order on (shard, timestamp)
LexLess(p, q) == p[1] < q[1] \/ (p[1] = q[1] /\ p[2] < q[2])

\* the region the runtime is in now (0 in constrained mode)
CurrentRegion == IF unconstrained THEN hist.regions ELSE 0

AllRegions == 0..hist.regions

\* An access made inside an unconstrained region is undone when the region is
\* exited; what an access at region r still sees are the constrained accesses
\* and those of its own region.
VisibleFrom(r) == {0, r}

\* the last call before call i that accessed addr in one of the regions (0 if none)
LastAccessBefore(i, addr, regions) ==
    LET js == {j \in 1..(i - 1) : Log[j].addr = addr /\ Log[j].region \in regions}
    IN  IF js = {} THEN 0 ELSE CHOOSE j \in js : \A k \in js : k <= j

LastWriteBefore(i, addr, regions) ==
    LET js == {j \in 1..(i - 1) : /\ Log[j].addr = addr
                                  /\ Log[j].region \in regions
                                  /\ Log[j].rec.kind = "write"}
    IN  IF js = {} THEN 0 ELSE CHOOSE j \in js : \A k \in js : k <= j

ExpectedStamp(i, addr, regions) ==
    LET j == LastAccessBefore(i, addr, regions)
    IN  IF j = 0 THEN <<0, 0>> ELSE Stamp(Log[j].rec)

ExpectedValue(i, addr, regions) ==
    LET j == LastWriteBefore(i, addr, regions)
    IN  IF j # 0 THEN Log[j].rec.value
        ELSE IF addr \in DOMAIN program.memory_image THEN program.memory_image[addr]
        ELSE W(0)

\* the addresses accessed in one of the regions
Accessed(regions) == {Log[j].addr : j \in {k \in 1..Len(Log) : Log[k].region \in regions}}

\* the value a record reports as stored before the access
SeenValue(rec) == IF rec.kind = "read" THEN rec.value ELSE rec.prev_value

(***************************************************************************)
(* C1.  Every access made through mr_cpu/mw_cpu is stamped with a (shard,  *)
(* timestamp) lexicographically strictly greater than the (prev_shard,     *)
(* prev_timestamp) its record returns; in particular the two are never     *)
(* equal.  This covers shard rollovers and instructions naming one         *)
(* register in several positions.                                          *)
(***************************************************************************)
C1_StampAfterPrev ==
    \A i \in 1..Len(Log) : LexLess(PrevStamp(Log[i].rec), Stamp(Log[i].rec))

\* an access right after a rollover (higher shard, lower timestamp than the
\* previous access to the address), in a run where one instruction read the same
\* register at C and at B
C1_Witness ==
    /\ \E i \in 1..Len(Log) : /\ Log[i].rec.prev_shard < Log[i].rec.shard
                              /\ Log[i].rec.prev_timestamp > Log[i].rec.timestamp
    /\ \E i \in 1..Len(Log) : \E j \in 1..Len(Log) :
          /\ j = i + 1
          /\ Log[i].addr = Log[j].addr
          /\ Log[i].global_clk = Log[j].global_clk
          /\ Log[j].rec.prev_timestamp = Log[i].rec.timestamp

(***************************************************************************)
(* C2.  As stated: the (prev_shard, prev_timestamp) an access returns is   *)
(* the stamp of the previous access to the same address, or (0, 0) on the  *)
(* first access.                                                           *)
(***************************************************************************)
C2_PrevIsPreviousAccess ==
    \A i \in 1..Len(Log) :
        PrevStamp(Log[i].rec) = ExpectedStamp(i, Log[i].addr, AllRegions)

(***************************************************************************)
(* C2, amended.  The (prev_shard, prev_timestamp) an access returns is the *)
(* stamp of the previous access to the same address that has not been      *)
(* rolled back by the exit of an unconstrained region, or (0, 0) when      *)
(* there is none.                                                          *)
(***************************************************************************)
C2_PrevIsPreviousLiveAccess ==
    \A i \in 1..Len(Log) :
        PrevStamp(Log[i].rec) = ExpectedStamp(i, Log[i].addr, VisibleFrom(Log[i].region))

\* an access made after a region exit to an address that had been accessed
\* both before the region and inside it: it returns the stamp from before
C2_Witness ==
    \E i \in 1..Len(Log) :
        /\ Log[i].region = 0
        /\ LastAccessBefore(i, Log[i].addr, {0}) # 0
        /\ LastAccessBefore(i, Log[i].addr, AllRegions)
              > LastAccessBefore(i, Log[i].addr, {0})

(***************************************************************************)
(* C3.  Over a whole run no two recorded accesses (the access records of   *)
(* the CPU events) carry the same pair (shard, clk + position index): the  *)
(* pair identifies one access.                                             *)
(***************************************************************************)
\* the CPU events recorded so far: those set aside on entering an
\* unconstrained region, then those of the current record
AllCpuEvents == unconstrained_state.record.cpu_events \o record.cpu_events

SlotOf(event, position) ==
    CASE position = "A" -> event.a_record
      [] position = "B" -> event.b_record
      [] position = "C" -> event.c_record
      [] position = "Memory" -> event.memory_record

RecordedSlots ==
    {p \in (1..Len(AllCpuEvents)) \X AccessPosition :
        SlotOf(AllCpuEvents[p[1]], p[2]) # None}

RecordOf(p) == SlotOf(AllCpuEvents[p[1]], p[2])[1]

C3_StampsUnique ==
    /\ \A p \in RecordedSlots :
          /\ RecordOf(p).shard = AllCpuEvents[p[1]].shard
          /\ RecordOf(p).timestamp = AllCpuEvents[p[1]].clk + PositionIndex(p[2])
    /\ \A p \in RecordedSlots : \A q \in RecordedSlots :
          p # q => Stamp(RecordOf(p)) # Stamp(RecordOf(q))

\* two recorded accesses with the same timestamp, told apart by the shard
C3_Witness ==
    \E p \in RecordedSlots : \E q \in RecordedSlots :
        /\ RecordOf(p).timestamp = RecordOf(q).timestamp
        /\ RecordOf(p).shard # RecordOf(q).shard

(***************************************************************************)
(* C4.  The value a read returns, and the prev_value a write returns, is   *)
(* the value of the most recent mw to that address, or the image's value   *)
(* if the address was never written and is in the image, or 0 otherwise;   *)
(* mr leaves the stored value alone and neither primitive touches the      *)
(* entry of any other address: the memory map is what the calls so far     *)
(* make it.  (Calls undone by the exit of an unconstrained region do not   *)
(* count after the exit.)                                                  *)
(***************************************************************************)
ReplayedMemory ==
    [addr \in DOMAIN program.memory_image \cup Accessed(VisibleFrom(CurrentRegion)) |->
        <<ExpectedValue(Len(Log) + 1, addr, VisibleFrom(CurrentRegion)),
          ExpectedStamp(Len(Log) + 1, addr, VisibleFrom(CurrentRegion))[1],
          ExpectedStamp(Len(Log) + 1, addr, VisibleFrom(CurrentRegion))[2]>>]

C4_ValuesFollowWrites ==
    /\ \A i \in 1..Len(Log) :
          SeenValue(Log[i].rec) = ExpectedValue(i, Log[i].addr, VisibleFrom(Log[i].region))
    /\ phase # "new" => state.memory = ReplayedMemory

\* a read that returns a written value, a read of an image word never written,
\* a read of an address never written outside the image, and a write over a
\* written value
C4_Witness ==
    /\ \E i \in 1..Len(Log) :
          /\ Log[i].rec.kind = "read"
          /\ LastWriteBefore(i, Log[i].addr, AllRegions) # 0
          /\ Log[i].rec.value # W(0)
    /\ \E i \in 1..Len(Log) :
          /\ Log[i].rec.kind = "read"
          /\ Log[i].addr \in DOMAIN program.memory_image
          /\ LastWriteBefore(i, Log[i].addr, AllRegions) = 0
          /\ Log[i].rec.value = program.memory_image[Log[i].addr]
    /\ \E i \in 1..Len(Log) :
          /\ Log[i].rec.kind = "read"
          /\ Log[i].addr \notin DOMAIN program.memory_image
          /\ LastWriteBefore(i, Log[i].addr, AllRegions) = 0
    /\ \E i \in 1..Len(Log) :
          /\ Log[i].rec.kind = "write"
          /\ LastWriteBefore(i, Log[i].addr, AllRegions) # 0
          /\ Log[i].rec.prev_value # W(0)

(***************************************************************************)
(* C5.  While unconstrained, the journal holds, for every address accessed *)
(* in the region by a read or a write, the entry the address had at the    *)
(* first access of the region (or `absent'); later accesses never          *)
(* overwrite it; and putting every journaled entry back (erasing those     *)
(* journaled as absent) gives the memory map of the region's entry.        *)
(***************************************************************************)
EntryAtRegionStart(addr) ==
    IF addr \in DOMAIN hist.entry_memory THEN Some(hist.entry_memory[addr]) ELSE None

C5_JournalRestoresEntryMemory ==
    unconstrained =>
        /\ DOMAIN unconstrained_state.memory_diff = Accessed({CurrentRegion})
        /\ \A addr \in DOMAIN unconstrained_state.memory_diff :
               unconstrained_state.memory_diff[addr] = EntryAtRegionStart(addr)
        /\ RestoreMemory(state.memory, unconstrained_state.memory_diff)
               = hist.entry_memory

\* the number of calls of the current region that accessed addr
AccessesInRegion(addr) ==
    Cardinality({j \in 1..Len(Log) : Log[j].addr = addr /\ Log[j].region = CurrentRegion})

\* inside a region: an address journaled as absent, and an address journaled
\* with its entry, accessed again and holding another value by now
C5_Witness ==
    /\ unconstrained
    /\ \E addr \in DOMAIN unconstrained_state.memory_diff :
          unconstrained_state.memory_diff[addr] = None
    /\ \E addr \in DOMAIN unconstrained_state.memory_diff :
          /\ unconstrained_state.memory_diff[addr] # None
          /\ AccessesInRegion(addr) >= 2
          /\ state.memory[addr][1] # unconstrained_state.memory_diff[addr][1][1]

(***************************************************************************)
(* C6.  As stated: while the runtime is in unconstrained mode, executing   *)
(* an instruction appends no CpuEvent to cpu_events and no AluEvent to any *)
(* ALU event vector.                                                       *)
(***************************************************************************)
AluEventCount(r) ==
    Len(r.add_events) + Len(r.sub_events) + Len(r.bitwise_events)
    + Len(r.shift_left_events) + Len(r.shift_right_events) + Len(r.lt_events)
    + Len(r.mul_events) + Len(r.divrem_events)

\* a cycle that starts and ends in unconstrained mode
UnconstrainedCycle ==
    unconstrained /\ unconstrained' /\ phase = "running" /\ phase' = "running"

C6_NoEventsWhileUnconstrained ==
    [][UnconstrainedCycle =>
          /\ record'.cpu_events = record.cpu_events
          /\ AluEventCount(record') = AluEventCount(record)]_vars

(***************************************************************************)
(* C6, amended.  While the runtime is in unconstrained mode, mr_cpu and    *)
(* mw_cpu stash no access record, so the per-cycle CPU record stays empty; *)
(* execute still appends one CpuEvent per instruction, carrying no access  *)
(* record, and an ALU instruction still appends one AluEvent, to the       *)
(* record in use during the region.                                        *)
(***************************************************************************)
NoAccessRecords(event) ==
    /\ event.a_record = None /\ event.b_record = None
    /\ event.c_record = None /\ event.memory_record = None

C6_EventsWithoutAccessRecords ==
    [][UnconstrainedCycle =>
          /\ cpu_record' = CpuRecordDefault
          /\ Len(record'.cpu_events) = Len(record.cpu_events) + 1
          /\ SubSeq(record'.cpu_events, 1, Len(record.cpu_events)) = record.cpu_events
          /\ NoAccessRecords(record'.cpu_events[Len(record'.cpu_events)])
          /\ record'.cpu_events[Len(record'.cpu_events)].instruction = fetch(Self)
          /\ AluEventCount(record') = AluEventCount(record)
                + (IF fetch(Self).opcode \in AluOpcodes THEN 1 ELSE 0)]_vars

\* inside a region, after an ALU instruction and a load or store were executed
\* in it
C6_Witness ==
    /\ unconstrained
    /\ AluEventCount(record) >= 1
    /\ \E i \in 1..Len(record.cpu_events) :
          record.cpu_events[i].instruction.opcode \in LoadOpcodes \cup StoreOpcodes
    /\ \E j \in 1..Len(Log) : Log[j].region = CurrentRegion /\ Log[j].rec.kind = "write"

(***************************************************************************)
(* C7.  Register X0 reads 0 after any sequence of executed instructions:   *)
(* rw(X0, v) is a no-op for every v, so no instruction with destination    *)
(* X0 (ALU, load, JAL/JALR, AUIPC) changes the value stored at address 0.  *)
(* (The image is taken not to hold address 0, a register slot.)            *)
(***************************************************************************)
C7_X0ReadsZero ==
    /\ word(Self, X0) = W(0)
    /\ \A i \in 1..Len(Log) :
          Log[i].addr = X0 => Log[i].rec.kind = "read" /\ Log[i].rec.value = W(0)

\* the events whose instruction names X0 as destination and computed a
\* non-zero result for it
X0Results(opcodes) ==
    {i \in 1..Len(AllCpuEvents) :
        /\ AllCpuEvents[i].instruction.opcode \in opcodes
        /\ AllCpuEvents[i].instruction.op_a = X0
        /\ AllCpuEvents[i].a # W(0)}

\* an ALU instruction and a load, or a jump and an AUIPC, with destination X0
\* and a non-zero result have been executed, and X0 has been read since
C7_Witness ==
    /\ \/ X0Results(AluOpcodes) # {} /\ X0Results(LoadOpcodes) # {}
       \/ X0Results({"JAL", "JALR"}) # {} /\ X0Results({"AUIPC"}) # {}
    /\ \E i \in 1..Len(Log) :
          /\ Log[i].addr = X0
          /\ Log[i].global_clk >= 1

(***************************************************************************)
(* The tables of postprocess, against the calls of the run.                *)
(***************************************************************************)
AddressesOf(table) == {table[i][1] : i \in 1..Len(table)}

\* one entry for each of the addresses and for no other
ExactlyOnePer(table, addrs) ==
    Len(table) = Cardinality(addrs) /\ AddressesOf(table) = addrs

\* the last-touch entry of an address, from the calls made in the regions
LastEntry(addr, regions) ==
    <<addr,
      MemoryRecord(ExpectedValue(Len(Log) + 1, addr, regions),
                   ExpectedStamp(Len(Log) + 1, addr, regions)[1],
                   ExpectedStamp(Len(Log) + 1, addr, regions)[2]),
      1>>

\* the accesses that count at the end of the run: those not rolled back
LiveRegions == VisibleFrom(CurrentRegion)

\* an address accessed during the run by rolled-back calls only
RolledBackOnly == Accessed(AllRegions) \ Accessed(LiveRegions)

(***************************************************************************)
(* C8.  As stated: after a complete run(), last_memory_record has exactly  *)
(* one entry for every address read or written during the run and none for *)
(* any other address; the entry is (addr, (value, shard, timestamp), 1)    *)
(* with the address's final value and the stamp of its last access.        *)
(***************************************************************************)
C8_LastRecordOfEveryAccess ==
    phase = "done" =>
        /\ ExactlyOnePer(record.last_memory_record, Accessed(AllRegions))
        /\ \A i \in 1..Len(record.last_memory_record) :
              record.last_memory_record[i]
                  = LastEntry(record.last_memory_record[i][1], AllRegions)

(***************************************************************************)
(* C8, amended.  After a complete run(), last_memory_record has exactly    *)
(* one entry for every address read or written during the run by an access *)
(* that was not rolled back by the exit of an unconstrained region, and    *)
(* none for any other address; the entry is (addr, (value, shard,          *)
(* timestamp), 1) with the address's final value and the stamp of its last *)
(* such access.                                                            *)
(***************************************************************************)
C8_LastRecordOfLiveAccesses ==
    phase = "done" =>
        /\ ExactlyOnePer(record.last_memory_record, Accessed(LiveRegions))
        /\ \A i \in 1..Len(record.last_memory_record) :
              /\ record.last_memory_record[i]
                    = LastEntry(record.last_memory_record[i][1], LiveRegions)
              /\ record.last_memory_record[i][2].value
                    = word(Self, record.last_memory_record[i][1])

\* a finished run whose table names an image address and a register, while an
\* address accessed only inside an exited region is not named
C8_Witness ==
    /\ phase = "done"
    /\ RolledBackOnly # {}
    /\ AddressesOf(record.last_memory_record) \cap DOMAIN program.memory_image # {}
    /\ X5 \in AddressesOf(record.last_memory_record)
    /\ \E i \in 1..Len(record.last_memory_record) :
          record.last_memory_record[i][2].value # W(0)

(***************************************************************************)
(* C9.  As stated: after a complete run(), first_memory_record has exactly *)
(* one entry (addr, (0, 0, 0), 1) for every accessed address that is not   *)
(* in the program memory image, and no entry for any address that is in    *)
(* the image or was never accessed.                                        *)
(***************************************************************************)
FirstEntry(addr) == <<addr, MemoryRecord(W(0), 0, 0), 1>>

C9_FirstRecordOfEveryAccess ==
    phase = "done" =>
        /\ ExactlyOnePer(record.first_memory_record,
                         Accessed(AllRegions) \ DOMAIN program.memory_image)
        /\ \A i \in 1..Len(record.first_memory_record) :
              record.first_memory_record[i] = FirstEntry(record.first_memory_record[i][1])

(***************************************************************************)
(* C9, amended.  After a complete run(), first_memory_record has exactly   *)
(* one entry (addr, (0, 0, 0), 1) for every address outside the program    *)
(* memory image that was accessed by an access not rolled back by the exit *)
(* of an unconstrained region, and no entry for any other address.         *)
(***************************************************************************)
C9_FirstRecordOfLiveAccesses ==
    phase = "done" =>
        /\ ExactlyOnePer(record.first_memory_record,
                         Accessed(LiveRegions) \ DOMAIN program.memory_image)
        /\ \A i \in 1..Len(record.first_memory_record) :
              record.first_memory_record[i] = FirstEntry(record.first_memory_record[i][1])

\* a finished run with entries in the table, in which an image address was
\* accessed and an address outside the image was accessed only inside an exited
\* region
C9_Witness ==
    /\ phase = "done"
    /\ Len(record.first_memory_record) >= 2
    /\ Accessed(LiveRegions) \cap DOMAIN program.memory_image # {}
    /\ RolledBackOnly \ DOMAIN program.memory_image # {}

(***************************************************************************)
(* C10.  As stated: after a complete run(), program_memory_record has      *)
(* exactly one entry per program-image address and none for other          *)
(* addresses, is sorted by strictly increasing address, carries the        *)
(* image's initial value with shard 0 and timestamp 0, and has             *)
(* multiplicity 1 if the address was accessed during the run and 0 if it   *)
(* was never accessed.                                                     *)
(***************************************************************************)
ProgramEntry(addr, accessed) ==
    <<addr, MemoryRecord(program.memory_image[addr], 0, 0),
      IF addr \in accessed THEN 1 ELSE 0>>

StrictlyIncreasing(table) ==
    \A i \in 1..(Len(table) - 1) : LtU(table[i][1], table[i + 1][1])

LastCycle == hist.cycle

\* some cycle has completed
Cycled == LastCycle.opcode # "none"

\* the last cycle ended with a rollover
RolledOver ==
    /\ Cycled
    /\ state.current_shard = LastCycle.current_shard + 1
    /\ state.clk = 0

\* the extra cycles of the last cycle's instruction
ExtraCycles ==
    IF LastCycle.opcode = "ECALL" THEN syscall_map[hist.syscall.id].num_extra_cycles
    ELSE 0

C13_RolloverAtFourTimesShardSize ==
    Cycled /\ phase = "running" /\ ~unconstrained =>
        IF max_syscall_cycles + LastCycle.advanced_clk >= 4 * hist.env_shard_size
        THEN RolledOver
        ELSE /\ state.current_shard = LastCycle.current_shard
             /\ state.clk = LastCycle.advanced_clk

LastCpuEvent == record.cpu_events[Len(record.cpu_events)]

C15_RecordsStampedByEvent ==
    /\ \A i \in 1..Len(AllCpuEvents) : \A position \in AccessPosition :
          SlotOf(AllCpuEvents[i], position) # None =>
              /\ SlotOf(AllCpuEvents[i], position)[1].shard = AllCpuEvents[i].shard
              /\ SlotOf(AllCpuEvents[i], position)[1].timestamp
                    = AllCpuEvents[i].clk
                        + (CASE position = "Memory" -> 0 [] position = "C" -> 1
                             [] position = "B" -> 2 [] position = "A" -> 3)
    /\ Cycled /\ phase = "running" =>
          /\ LastCpuEvent.instruction.opcode = LastCycle.opcode
          /\ LastCpuEvent.shard = LastCycle.current_shard
          /\ LastCpuEvent.clk = LastCycle.clk + ExtraCycles

\* the event of an ECALL with extra cycles, with its A and B records stamped
\* after the handler's cycles
C15_Witness ==
    /\ Cycled /\ phase = "running"
    /\ LastCycle.opcode = "ECALL" /\ ExtraCycles > 0
    /\ LastCpuEvent.a_record # None /\ LastCpuEvent.b_record # None
    /\ LastCpuEvent.a_record[1].timestamp = LastCycle.clk + ExtraCycles + 3
    /\ LastCpuEvent.b_record[1].timestamp = LastCycle.clk + ExtraCycles + 2

(***************************************************************************)
(* The public wrappers called directly.  mr_cpu and mw_cpu are `pub fn`:   *)
(* besides execute, any client holding the runtime (a syscall handler, a   *)
(* test) can call them with an address and a position of its choice,       *)
(* between the cycles of a run.                                            *)
(***************************************************************************)
CallAddresses == {X5, W(8), W(48)}

CallPrograms ==
    {[instructions |-> body, pc_base |-> W(0), pc_start |-> W(0),
      memory_image |-> image] :
        body \in { <<LI(Reg(11), W(49)), Instruction("SW", Reg(11), X0, W(8), FALSE, TRUE)>>,
                   <<Instruction("SW", Reg(11), X0, W(44), FALSE, TRUE),
                     Instruction("LW", X0, X0, W(48), FALSE, TRUE)>>,
                   <<LI(X5, W(110)), ECALL>> },
        image \in MemoryImages}

InitCalls ==
    /\ program \in CallPrograms
    /\ state = ExecutionStateNew(program.pc_start, 0)
    /\ record = ExecutionRecordDefault
    /\ cpu_record = CpuRecordDefault
    /\ \E e \in EnvShardSizes :
          /\ shard_size = e * 4
          /\ hist = [HistInit EXCEPT !.env_shard_size = e]
    /\ unconstrained = FALSE
    /\ unconstrained_state = ForkStateDefault
    /\ phase = "new"
    /\ operation = FixedShiftRightOperationDefault

\* History only: the direct call about to be made
NoteCall(self, kind, addr, position) ==
    [self EXCEPT !.hist.call = [kind |-> kind, addr |-> addr, position |-> position,
                                occupied |-> GetSlot(self.cpu_record, position) # None,
                                unconstrained |-> self.unconstrained],
                 !.hist.calls = @ + 1]

CallMrCpu ==
    /\ phase = "running"
    /\ hist.calls < MaxCalls
    /\ \E addr \in CallAddresses : \E position \in AccessPosition :
          Becomes(mr_cpu(NoteCall(Self, "mr_cpu", addr, position), addr, position).self,
                  "running")

CallMwCpu ==
    /\ phase = "running"
    /\ hist.calls < MaxCalls
    /\ \E addr \in CallAddresses : \E position \in AccessPosition :
          Becomes(mw_cpu(NoteCall(Self, "mw_cpu", addr, position), addr, W(7), position),
                  "running")

NextCalls == Start \/ Cycle \/ Finish \/ CallMrCpu \/ CallMwCpu

SpecCalls == InitCalls /\ [][NextCalls]_vars

\* What validate_memory_access demands of a direct call
LastCall == hist.call

CallIsValid(call) ==
    IF call.position = "Memory"
    THEN Mod4(call.addr) = 0 /\ AboveRegisters(call.addr)
    ELSE IsRegister(call.addr)

(***************************************************************************)
(* C16.  Every access that went through at position Memory has an address  *)
(* that is a multiple of 4 and greater than 40, and every access that went *)
(* through at position A, B or C has a register index 0..31 as address; a  *)
(* direct call that breaks the rule of its position has aborted the run.   *)
(* So no cell other than a register or an aligned address above 40 ever    *)
(* enters the memory: no store reaches the register file, and no register  *)
(* access goes above index 31.                                             *)
(***************************************************************************)
C16_AccessesValidated ==
    /\ \A i \in 1..Len(Log) :
          /\ Log[i].position \in AccessPosition
          /\ Log[i].position = "Memory"
                => Mod4(Log[i].addr) = 0 /\ AboveRegisters(Log[i].addr)
          /\ Log[i].position # "Memory" => IsRegister(Log[i].addr)
    /\ \A addr \in DOMAIN state.memory :
          IsRegister(addr) \/ (Mod4(addr) = 0 /\ AboveRegisters(addr))
    /\ (LastCall.kind # "none" /\ ~CallIsValid(LastCall)) => phase = "panicked"

\* The address 48 was accessed at position Memory, and a direct call with the
\* same address at position B (where it is no register) aborted the run.
C16_Witness ==
    /\ phase = "panicked"
    /\ LastCall.addr = W(48)
    /\ LastCall.position = "B"
    /\ \E i \in 1..Len(Log) : Log[i].position = "Memory" /\ Log[i].addr = W(48)
    /\ \E i \in 1..Len(Log) : Log[i].position = "A"
    /\ W(8) \notin DOMAIN state.memory

(***************************************************************************)
(* C17.  In constrained mode a direct call of mr_cpu or mw_cpu whose       *)
(* position's slot of the cycle's CpuRecord is already occupied aborts the *)
(* run (the slot is filled at most once per cycle).                        *)
(***************************************************************************)
C17_OccupiedSlotAborts ==
    (/\ LastCall.kind # "none"
     /\ LastCall.occupied
     /\ ~LastCall.unconstrained
     /\ CallIsValid(LastCall))
        => phase = "panicked"

\* The part of C17 that the code does enforce: mw_cpu into an occupied slot
C17_OccupiedSlotAbortsWrite ==
    (/\ LastCall.kind = "mw_cpu"
     /\ LastCall.occupied
     /\ ~LastCall.unconstrained
     /\ CallIsValid(LastCall))
        => phase = "panicked"

\* The fetched instruction is one the runtime does not support
Unsupported ==
    \/ fetch(Self).opcode \in {"UNIMP", "EBREAK"}
    \/ /\ fetch(Self).opcode = "ECALL"
       /\ word(Self, X5) \notin DOMAIN syscall_map

(***************************************************************************)
(* C18.  Executing UNIMP, EBREAK, or ECALL with a code in X5 that has no   *)
(* registered handler aborts the run, and does so before pc is updated and *)
(* before a CpuEvent is emitted for the instruction (and before the clocks *)
(* advance).                                                               *)
(***************************************************************************)
C18_UnsupportedAborts ==
    [][(phase = "running" /\ InRange(Self) /\ Unsupported)
          => /\ phase' = "panicked"
             /\ state'.pc = state.pc
             /\ record'.cpu_events = record.cpu_events
             /\ state'.global_clk = state.global_clk
             /\ state'.clk = state.clk]_vars

\* After one executed instruction (X5 := 77) the run aborted at an ECALL
\* whose code 77 has no handler.
C18_Witness ==
    /\ phase = "panicked"
    /\ InRange(Self)
    /\ fetch(Self) = ECALL
    /\ word(Self, X5) = W(77)
    /\ W(77) \notin DOMAIN syscall_map
    /\ Len(record.cpu_events) = 1
    /\ state.global_clk = 1

\* The last call of a handler, and the runtime as the step leaves it
LastSyscall == hist.syscall

(***************************************************************************)
(* C19.  An ECALL whose code has a registered handler reads the code from  *)
(* X5 as it is when the instruction starts.  The run aborts if the clk the *)
(* handler hands back is not the clk before the call plus the handler's    *)
(* num_extra_cycles; it aborts otherwise only if the handler itself does   *)
(* (entering an unconstrained region inside one).  When it does not abort, *)
(* X10 holds the handler's result and pc is the next_pc of the handler's   *)
(* context.                                                                *)
(***************************************************************************)
C19_EcallContract ==
    [][(/\ phase = "running"
        /\ InRange(Self)
        /\ fetch(Self).opcode = "ECALL"
        /\ ~Unsupported
        /\ phase' # phase \/ state' # state)
          => LET id == word(Self, X5)
                 extra == syscall_map[id].num_extra_cycles
                 nested == syscall_map[id].name = "ENTER_UNCONSTRAINED" /\ unconstrained
             IN  /\ hist'.syscall.id = id
                 /\ hist'.syscall.init_clk = state.clk
                 /\ hist'.syscall.global_clk = state.global_clk
                 /\ (phase' = "panicked")
                       <=> (hist'.syscall.clk # state.clk + extra \/ nested)
                 /\ phase' # "panicked"
                       => /\ X10 \in DOMAIN state'.memory
                          /\ state'.memory[X10][1] = hist'.syscall.a
                          /\ state'.pc = hist'.syscall.next_pc]_vars

\* A PRECOMPILE call (code 102 in X5, 8 extra cycles) whose handler set
\* next_pc to 0 has completed: X10 holds its result 7 and pc is 0.
C19_Witness ==
    /\ phase = "running"
    /\ LastSyscall.id = W(102)
    /\ LastSyscall.global_clk + 1 = state.global_clk
    /\ LastSyscall.global_clk > 0
    /\ LastSyscall.clk = LastSyscall.init_clk + 8
    /\ LastSyscall.next_pc = W(0)
    /\ state.pc = W(0)
    /\ word(Self, X10) = W(7)

(***************************************************************************)
(* Exact arithmetic for stating what a quotient and a remainder are: the   *)
(* 64-bit product of two words, by columns of byte products.               *)
(***************************************************************************)
ByteProduct(x, y, i, k) == IF k - i \in 0..3 THEN x[i + 1] * y[k - i + 1] ELSE 0

Column(x, y, k) ==
    ByteProduct(x, y, 0, k) + ByteProduct(x, y, 1, k)
        + ByteProduct(x, y, 2, k) + ByteProduct(x, y, 3, k)

MulWide(x, y) ==
    LET s0 == Column(x, y, 0)
        s1 == Column(x, y, 1) + (s0 \div 256)
        s2 == Column(x, y, 2) + (s1 \div 256)
        s3 == Column(x, y, 3) + (s2 \div 256)
        s4 == Column(x, y, 4) + (s3 \div 256)
        s5 == Column(x, y, 5) + (s4 \div 256)
        s6 == Column(x, y, 6) + (s5 \div 256)
        s7 == s6 \div 256
    IN  [low |-> <<s0 % 256, s1 % 256, s2 % 256, s3 % 256>>,
         high |-> <<s4 % 256, s5 % 256, s6 % 256, s7 % 256>>]

\* q is the unsigned quotient of b by c # 0:  q * c <= b < q * c + c
IsQuotientU(q, b, c) ==
    LET p == MulWide(q, c)
    IN  /\ p.high = W(0)
        /\ ~LtU(b, p.low)
        /\ LtU(wrapping_sub(b, p.low), c)

\* r is the unsigned remainder of b by c # 0:  b = q * c + r with r < c
IsRemainderU(r, b, c) ==
    LET q == wrapping_div_u32(b, c)
    IN  /\ IsQuotientU(q, b, c)
        /\ r = wrapping_sub(b, MulWide(q, c).low)

\* q is the signed quotient truncated toward zero (as i32 numbers)
IsQuotientS(q, b, c) ==
    /\ IsQuotientU(unsigned_abs(q), unsigned_abs(b), unsigned_abs(c))
    /\ q # W(0) => (IsNegative(q) <=> (IsNegative(b) # IsNegative(c)))

\* r is the remainder of the truncating signed division: b = q * c + r with
\* |r| < |c| and r zero or of the sign of b
IsRemainderS(r, b, c) ==
    /\ IsRemainderU(unsigned_abs(r), unsigned_abs(b), unsigned_abs(c))
    /\ r # W(0) => (IsNegative(r) <=> IsNegative(b))

\* what C20 says the result a of opcode on b and c is
DivRemExpected(opcode, a, b, c) ==
    IF c = W(0)
    THEN a = (IF opcode \in {"DIV", "DIVU"} THEN U32Max ELSE b)
    ELSE IF b = I32Min /\ c = U32Max /\ opcode \in {"DIV", "REM"}
    THEN a = (IF opcode = "DIV" THEN I32Min ELSE W(0))
    ELSE CASE opcode = "DIV" -> IsQuotientS(a, b, c)
           [] opcode = "REM" -> IsRemainderS(a, b, c)
           [] opcode = "DIVU" -> IsQuotientU(a, b, c)
           [] opcode = "REMU" -> IsRemainderU(a, b, c)

(***************************************************************************)
(* C20.  DIV, DIVU, REM and REMU never abort and their result is defined   *)
(* for every operand pair: with c = 0, DIV and DIVU give 0xFFFFFFFF and    *)
(* REM and REMU give b; with b = 0x80000000 and c = 0xFFFFFFFF, DIV gives  *)
(* 0x80000000 and REM gives 0; otherwise DIV and REM are the quotient      *)
(* truncated toward zero and its remainder of the operands as signed       *)
(* numbers, and DIVU and REMU those of the operands as unsigned numbers.   *)
(* The result is what the instruction's event carries and what rd holds,   *)
(* and on the operands of the source's tests it is the value they expect.  *)
(***************************************************************************)
C20_DivisionDefined ==
    /\ \A i \in 1..Len(record.cpu_events) :
          LET e == record.cpu_events[i]
          IN  e.instruction.opcode \in DivRemOpcodes
                 => DivRemExpected(e.instruction.opcode, e.a, e.b, e.c)
    /\ (phase = "panicked" /\ InRange(Self))
          => fetch(Self).opcode \notin DivRemOpcodes
    /\ \A t \in division_tests \cup remainder_tests :
          (phase = "done" /\ program.instructions = simple_op_code_test(t[1], t[3], t[4]))
             => /\ word(Self, Reg(12)) = t[2]
                /\ Len(record.divrem_events) = 1
                /\ record.divrem_events[1].a = t[2]
                /\ record.divrem_events[1].b = t[3]
                /\ record.divrem_events[1].c = t[4]

\* The run of DIV on i32::MIN and -1 has finished with i32::MIN in Reg(12).
C20_Witness ==
    /\ phase = "done"
    /\ program.instructions = simple_op_code_test("DIV", I32Min, U32Max)
    /\ word(Self, Reg(12)) = I32Min
    /\ Len(record.divrem_events) = 1
    /\ Len(record.cpu_events) = 3

\* The runtime as a step leaves it, and a step that completed an instruction
SelfAfter == [Self EXCEPT !.state = state', !.hist = hist']

Completes(opcodes) ==
    /\ phase = "running"
    /\ InRange(Self)
    /\ fetch(Self).opcode \in opcodes
    /\ phase' = "running"
    /\ state'.global_clk = state.global_clk + 1

\* 0x00 or 0xFF: the byte that extends a value whose top byte is v
SignFill(v) == IF v >= 128 THEN 255 ELSE 0

\* a is what the load opcode makes of the word w read for the address addr
IsLoaded(opcode, a, addr, w) ==
    LET lane == addr[1] % 4
        upper == (addr[1] \div 2) % 2 = 1
        lo == IF upper THEN w[3] ELSE w[1]
        hi == IF upper THEN w[4] ELSE w[2]
    IN  CASE opcode = "LB" ->
                 a[1] = w[lane + 1] /\ \A i \in 2..4 : a[i] = SignFill(w[lane + 1])
          [] opcode = "LBU" ->
                 a[1] = w[lane + 1] /\ \A i \in 2..4 : a[i] = 0
          [] opcode = "LH" ->
                 a[1] = lo /\ a[2] = hi /\ a[3] = SignFill(hi) /\ a[4] = SignFill(hi)
          [] opcode = "LHU" ->
                 a[1] = lo /\ a[2] = hi /\ a[3] = 0 /\ a[4] = 0
          [] opcode = "LW" -> a = w

\* the accesses the step added to the history
NewAccesses == {hist'.log[j] : j \in (Len(hist.log) + 1)..Len(hist'.log)}

(***************************************************************************)
(* C21.  A load that completes reads the aligned word at (rs1 + imm) & ~3  *)
(* (one read at position Memory, of that address) and writes rd: LB and    *)
(* LBU take the byte at lane addr % 4, LH and LHU the low half when        *)
(* (addr >> 1) % 2 = 0 and the high half otherwise, LW the whole word; LB  *)
(* and LH sign-extend to 32 bits, LBU and LHU zero-extend.  The word in    *)
(* memory has the same value after the load.  On the loads of the source's *)
(* memory test the register holds the value the test expects.              *)
(***************************************************************************)
C21_LoadContract ==
    /\ [](\A t \in simple_memory_program_loads :
             (phase = "done"
                 /\ program.instructions = simple_memory_program_load(t[1], t[2]))
                => word(Self, Reg(28)) = t[3])
    /\ [][Completes(LoadOpcodes)
             => LET rd == fetch(Self).op_a
                    addr == wrapping_add(word(Self, fetch(Self).op_b), fetch(Self).op_c)
                    base == wrapping_sub(addr, W(addr[1] % 4))
                    w == word(Self, base)
                IN  /\ word(SelfAfter, base) = w
                    /\ rd # X0 => IsLoaded(fetch(Self).opcode, word(SelfAfter, rd), addr, w)
                    /\ \E e \in NewAccesses :
                          /\ e.position = "Memory"
                          /\ e.addr = base
                          /\ e.rec.kind = "read"
                          /\ e.rec.value = w
                    /\ \A e \in NewAccesses : e.position = "Memory" => e.addr = base]_vars

\* The run that stores 0x12348765 and loads the byte at offset 1 with LB has
\* finished: Reg(28) holds 0xFFFFFF87 and the word is still 0x12348765.
C21_Witness ==
    /\ phase = "done"
    /\ program.instructions = simple_memory_program_load("LB", 1)
    /\ word(Self, Reg(28)) = <<135, 255, 255, 255>>
    /\ word(Self, Addr27654320(0)) = Word12348765

\* the byte lanes (0..3) of the aligned word that the store opcode writes,
\* for the address addr
WrittenLanes(opcode, addr) ==
    CASE opcode = "SB" -> {addr[1] % 4}
      [] opcode = "SH" -> IF (addr[1] \div 2) % 2 = 0 THEN {0, 1} ELSE {2, 3}
      [] opcode = "SW" -> {0, 1, 2, 3}

(***************************************************************************)
(* C22.  A store that completes changes only the addressed lane of the     *)
(* aligned word: SB puts the low byte of the source register into byte     *)
(* lane addr % 4, SH the low half into half lane (addr >> 1) % 2, SW the   *)
(* whole register; every other byte of the word, and every other cell of   *)
(* the memory, keeps its value.  On the stores of the source's memory test *)
(* the following LW of the word returns the spliced value the test         *)
(* expects.                                                                *)
(***************************************************************************)
C22_StoreContract ==
    /\ [](\A t \in simple_memory_program_stores :
             (phase = "done" /\ program.instructions = simple_memory_program_store(t[1]))
                => word(Self, Reg(16)) = t[2])
    /\ [][Completes(StoreOpcodes)
             => LET v == word(Self, fetch(Self).op_a)
                    addr == wrapping_add(word(Self, fetch(Self).op_b), fetch(Self).op_c)
                    base == wrapping_sub(addr, W(addr[1] % 4))
                    lanes == WrittenLanes(fetch(Self).opcode, addr)
                    least == CHOOSE l \in lanes : \A m \in lanes : l <= m
                IN  /\ \A l \in 0..3 :
                          word(SelfAfter, base)[l + 1] =
                              IF l \in lanes THEN v[l - least + 1]
                              ELSE word(Self, base)[l + 1]
                    /\ \A x \in (DOMAIN state.memory \cup DOMAIN state'.memory) \ {base} :
                          word(SelfAfter, x) = word(Self, x)]_vars

\* The run SW 0x12348765, SB at offset 0, SB at offset 1 (of 0x38276525), LW
\* has finished with 0x12342525 in Reg(16) and in the word.
C22_Witness ==
    /\ phase = "done"
    /\ program.instructions =
           simple_memory_program_store(<<StoreX17("SB", 0), StoreX17("SB", 1)>>)
    /\ word(Self, Reg(16)) = <<37, 37, 52, 18>>
    /\ word(Self, Addr43627530(0)) = <<37, 37, 52, 18>>

\* a step out of a running state whose fetched instruction has one of the
\* opcodes (completed or aborted)
Executes(opcodes) ==
    /\ phase = "running"
    /\ InRange(Self)
    /\ fetch(Self).opcode \in opcodes
    /\ phase' # phase \/ state' # state

\* what JAL and JALR leave behind: rd = pc + 4 (mod 2^32), the new pc, and
\* for JALR the base register as it was unless it is rd
Jumped ==
    LET rd == fetch(Self).op_a
        rs1 == fetch(Self).op_b
        target == IF fetch(Self).opcode = "JAL"
                  THEN wrapping_add(state.pc, fetch(Self).op_b)
                  ELSE wrapping_add(word(Self, rs1), fetch(Self).op_c)
    IN  /\ phase' = "running"
        /\ state'.pc = target
        /\ rd # X0 => word(SelfAfter, rd) = wrapping_add(state.pc, W(4))
        /\ (fetch(Self).opcode = "JALR" /\ rs1 # rd)
              => word(SelfAfter, rs1) = word(Self, rs1)

\* a run whose pc is outside the instruction range ends with that pc
EndsOutsideRange ==
    (phase = "running" /\ ~InRange(Self) /\ (phase' # phase \/ state' # state))
        => phase' = "done" /\ state'.pc = state.pc

(***************************************************************************)
(* C23.  JALR rd, rs1, imm sets rd to pc + 4 and pc to rs1 + imm (mod      *)
(* 2^32) with rs1 as read before rd is written, and leaves rs1 unchanged   *)
(* when rd differs from it; JAL rd, imm sets rd to pc + 4 and pc to        *)
(* pc + imm.  When the new pc lies outside the instruction range the run   *)
(* ends with that pc.                                                      *)
(***************************************************************************)
C23_JumpContract ==
    [][(Executes({"JAL", "JALR"}) => Jumped) /\ EndsOutsideRange]_vars

\* The same for every jump whose pc + 4 does not overflow 32 bits
C23_JumpContractBelowTop ==
    [][((Executes({"JAL", "JALR"}) /\ ~AddOverflows(state.pc, W(4))) => Jumped)
          /\ EndsOutsideRange]_vars

\* tests::test_jalr has finished: X5 = 8, Reg(11) = 100, pc = 108
C23_Witness ==
    /\ phase = "done"
    /\ program.instructions = test_jalr(Instruction("JALR", X5, Reg(11), W(8), FALSE, TRUE))
    /\ program.pc_base = W(0)
    /\ word(Self, X5) = W(8)
    /\ word(Self, Reg(11)) = W(100)
    /\ state.pc = W(108)

\* the effective address of the load or store about to execute, and its word
EffectiveAddr == wrapping_add(word(Self, fetch(Self).op_b), fetch(Self).op_c)
AlignedAddr == wrapping_sub(EffectiveAddr, W(EffectiveAddr[1] % 4))

Misaligned ==
    \/ fetch(Self).opcode \in {"LH", "LHU", "SH"} /\ EffectiveAddr[1] % 2 = 1
    \/ fetch(Self).opcode \in {"LW", "SW"} /\ EffectiveAddr[1] % 4 # 0

(***************************************************************************)
(* C24.  A misaligned access is fatal: LH, LHU and SH abort when the       *)
(* effective address is odd, LW and SW when it is not a multiple of 4; LB, *)
(* LBU and SB accept every byte offset, and so does every aligned access   *)
(* (a load or store aborts only if it is misaligned or its word is not     *)
(* above the registers).  When a misaligned access aborts, the word it     *)
(* addresses has not been modified.                                        *)
(***************************************************************************)
C24_MisalignedAborts ==
    [][Executes(LoadOpcodes \cup StoreOpcodes)
          => /\ (phase' = "panicked") <=> (Misaligned \/ ~AboveRegisters(AlignedAddr))
             /\ Misaligned => word(SelfAfter, AlignedAddr) = word(Self, AlignedAddr)]_vars

\* SH at byte offset 1 of the word holding 0x12348765 has aborted; the word is
\* as it was.
C24_Witness ==
    /\ phase = "panicked"
    /\ program.instructions = simple_memory_program_store(<<StoreX17("SH", 1)>>)
    /\ fetch(Self) = StoreX17("SH", 1)
    /\ word(Self, Addr43627530(0)) = Word12348765
    /\ word(Self, Reg(17)) = Word38276525

\* a is b shifted by n (0..31) positions as the opcode says, bit by bit
IsShifted(opcode, a, b, n) ==
    \A i \in 0..31 :
        BitOf(a, i) =
            CASE opcode = "SLL" -> IF i >= n THEN BitOf(b, i - n) ELSE 0
              [] opcode = "SRL" -> IF i + n <= 31 THEN BitOf(b, i + n) ELSE 0
              [] opcode = "SRA" -> IF i + n <= 31 THEN BitOf(b, i + n) ELSE BitOf(b, 31)

(***************************************************************************)
(* C25.  SLL, SRL and SRA shift b by the low 5 bits of c, whatever the     *)
(* other 27 bits of c are (the result for c is the result for c mod 32);   *)
(* SLL and SRL fill the vacated bits with zeros and SRA with the sign bit  *)
(* of b.  On the operands of the source's shift tests the result is the    *)
(* value the tests expect.                                                 *)
(***************************************************************************)
C25_ShiftsUseLowFiveBits ==
    /\ \A i \in 1..Len(record.cpu_events) :
          LET e == record.cpu_events[i]
          IN  e.instruction.opcode \in ShiftOpcodes
                 => IsShifted(e.instruction.opcode, e.a, e.b, e.c[1] % 32)
    /\ \A t \in shift_tests :
          (phase = "done" /\ program.instructions = simple_op_code_test(t[1], t[3], t[4]))
             => /\ word(Self, Reg(12)) = t[2]
                /\ Len(record.cpu_events) = 3
                /\ record.cpu_events[3].a = t[2]

\* SLL of 0x21212121 by 0xffffffe7 has finished with 0x90909080 in Reg(12), the
\* result of a shift by 7.
C25_Witness ==
    /\ phase = "done"
    /\ program.instructions =
           simple_op_code_test("SLL", <<33, 33, 33, 33>>, <<231, 255, 255, 255>>)
    /\ word(Self, Reg(12)) = <<128, 144, 144, 144>>
    /\ IsShifted("SLL", word(Self, Reg(12)), word(Self, X10), 7)

\* the two's complement of the 64-bit number [low, high]
Negate64(p) ==
    [low |-> wrapping_neg(p.low),
     high |-> IF p.low = W(0) THEN wrapping_neg(p.high)
              ELSE wrapping_sub(wrapping_sub(W(0), p.high), W(1))]

\* the 64-bit product of b and c read as signed (TRUE) or unsigned (FALSE)
\* numbers: the product of the magnitudes, negated when the signs differ
Product64(b, b_signed, c, c_signed) ==
    LET nb == b_signed /\ IsNegative(b)
        nc == c_signed /\ IsNegative(c)
        p == MulWide(IF nb THEN wrapping_neg(b) ELSE b,
                     IF nc THEN wrapping_neg(c) ELSE c)
    IN  IF nb # nc THEN Negate64(p) ELSE p

MulExpected(opcode, b, c) ==
    CASE opcode = "MUL" -> Product64(b, FALSE, c, FALSE).low
      [] opcode = "MULH" -> Product64(b, TRUE, c, TRUE).high
      [] opcode = "MULHU" -> Product64(b, FALSE, c, FALSE).high
      [] opcode = "MULHSU" -> Product64(b, TRUE, c, FALSE).high

(***************************************************************************)
(* C26.  MUL returns the low 32 bits of b * c; MULH, MULHU and MULHSU the  *)
(* high 32 bits of the 64-bit product with b and c both signed, both       *)
(* unsigned, and b signed with c unsigned.  On the operands of the         *)
(* source's multiplication tests the result is the value the tests expect. *)
(***************************************************************************)
C26_MultiplyHalves ==
    /\ \A i \in 1..Len(record.cpu_events) :
          LET e == record.cpu_events[i]
          IN  e.instruction.opcode \in MulOpcodes
                 => e.a = MulExpected(e.instruction.opcode, e.b, e.c)
    /\ \A t \in multiplication_tests :
          (phase = "done" /\ program.instructions = simple_op_code_test(t[1], t[3], t[4]))
             => /\ word(Self, Reg(12)) = t[2]
                /\ Len(record.cpu_events) = 3
                /\ record.cpu_events[3].a = t[2]

\* MULHSU of 0xff000000 (negative) by 0xff000000 (unsigned) has finished with
\* 0xff010000 in Reg(12), where MULH of the same operands gives 0x00010000.
C26_Witness ==
    /\ phase = "done"
    /\ program.instructions =
           simple_op_code_test("MULHSU", <<0, 0, 0, 255>>, <<0, 0, 0, 255>>)
    /\ word(Self, Reg(12)) = <<0, 0, 1, 255>>
    /\ MulExpected("MULH", word(Self, X10), word(Self, Reg(11))) = <<0, 0, 1, 0>>

IsPrefix(s, t) == Len(s) <= Len(t) /\ SubSeq(t, 1, Len(s)) = s

\* the run has entered no unconstrained region, now or before
Constrained == hist.regions = 0
ConstrainedAfter == hist'.regions = 0

\* opcodes after which the next instruction is the one that follows
FallThroughOpcodes ==
    AluOpcodes \cup LoadOpcodes \cup StoreOpcodes \cup {"AUIPC"}

\* an iteration of the loop of run() that executes its instruction to the end
CycleCompletes ==
    /\ phase = "running"
    /\ InRange(Self)
    /\ phase' = "running"
    /\ state'.global_clk = state.global_clk + 1

(***************************************************************************)
(* C27.  In a run that enters no unconstrained region, every instruction   *)
(* executed to its end appends exactly one CpuEvent, of that instruction   *)
(* and with the pc it was fetched from; no step removes or changes an      *)
(* event already in cpu_events.  Hence cpu_events is as long as global_clk *)
(* says, its first event has pc_start, and the event after an instruction  *)
(* that falls through has the next pc.                                     *)
(***************************************************************************)
C27_CpuEventsFollowExecution ==
    /\ [](Constrained =>
            /\ Len(record.cpu_events) = state.global_clk
            /\ record.cpu_events # <<>> => record.cpu_events[1].pc = program.pc_start
            /\ \A i \in 1..(Len(record.cpu_events) - 1) :
                  record.cpu_events[i].instruction.opcode \in FallThroughOpcodes
                     => record.cpu_events[i + 1].pc =
                            wrapping_add(record.cpu_events[i].pc, W(4)))
    /\ [][ConstrainedAfter =>
            /\ IsPrefix(record.cpu_events, record'.cpu_events)
            /\ Len(record'.cpu_events) <= Len(record.cpu_events) + 1
            /\ CycleCompletes =>
                  /\ Len(record'.cpu_events) = Len(record.cpu_events) + 1
                  /\ record'.cpu_events[Len(record'.cpu_events)].pc = state.pc
                  /\ record'.cpu_events[Len(record'.cpu_events)].instruction = fetch(Self)]_vars

\* a constrained run has executed a taken jump and then a third instruction:
\* three events, the third with the pc the jump produced
C27_Witness ==
    /\ Constrained
    /\ Len(record.cpu_events) = 3
    /\ state.global_clk = 3
    /\ record.cpu_events[2].instruction.opcode \in {"JAL", "JALR"} \cup BranchOpcodes
    /\ record.cpu_events[3].pc # wrapping_add(record.cpu_events[2].pc, W(4))

\* the program has no branch, jump or ECALL instruction
StraightLine ==
    \A i \in 1..Len(program.instructions) :
        program.instructions[i].opcode \notin BranchOpcodes \cup {"JAL", "JALR", "ECALL"}

\* the number of instructions that lie before pc_start
Skipped == ToNat(wrapping_sub(program.pc_start, program.pc_base)) \div 4

\* run() has returned after executing every instruction but the first `skip`
\* exactly once, in program order
RanOnceFrom(skip) ==
    /\ phase = "done"
    /\ state.global_clk = Len(program.instructions) - skip
    /\ Len(record.cpu_events) = Len(program.instructions) - skip
    /\ \A i \in 1..Len(record.cpu_events) :
          /\ record.cpu_events[i].instruction = program.instructions[i + skip]
          /\ record.cpu_events[i].pc =
                 wrapping_add(program.pc_base, W(4 * (i + skip - 1)))

\* what a step of run() is, by where the pc is: inside the range one more
\* instruction is fetched and executed (or aborts the run), outside it
\* postprocess runs and run() returns, and after that nothing happens
LoopStep ==
    /\ (phase = "running" /\ InRange(Self))
          => \/ phase' = "panicked"
             \/ /\ phase' = "running"
                /\ hist'.cycle.pc = state.pc
                /\ hist'.cycle.global_clk = state.global_clk
                /\ hist'.cycle.opcode = fetch(Self).opcode
    /\ (phase = "running" /\ ~InRange(Self))
          => /\ phase' = "done"
             /\ state' = state
             /\ record'.cpu_events = record.cpu_events
    /\ phase \notin {"done", "panicked"}

(***************************************************************************)
(* C28.  run() executes one more instruction whenever                      *)
(* (pc - pc_base) mod 2^32 < 4 * number of instructions, and at the first  *)
(* state where it is not, runs postprocess and returns: nothing follows.   *)
(* A program with no branch, jump or ECALL instruction either aborts at    *)
(* one of its instructions or returns after executing every instruction    *)
(* from pc_start on exactly once, in order, with global_clk their number   *)
(* (all the instructions when pc_start = pc_base); one of the two happens. *)
(***************************************************************************)
C28_RunLoopTerminates ==
    /\ [][LoopStep]_vars
    /\ []((StraightLine /\ phase = "done") => RanOnceFrom(Skipped))
    /\ StraightLine => <>(phase = "panicked" \/ RanOnceFrom(Skipped))

\* The statement without the two exceptions: a program with no branch, jump
\* or ECALL instruction never aborts and returns having executed each of its
\* instructions exactly once.
C28_StraightLineRunsEveryInstruction ==
    /\ [][LoopStep]_vars
    /\ [](StraightLine => (phase # "panicked" /\ (phase = "done" => RanOnceFrom(0))))
    /\ StraightLine => <>RanOnceFrom(0)

\* test_add placed in the last 8 bytes of the address space has returned: its
\* third instruction was fetched at pc 0, and Reg(31) holds 42
C28_Witness ==
    /\ program.instructions = test_add
    /\ program.pc_base = HighBase
    /\ RanOnceFrom(0)
    /\ record.cpu_events[3].pc = W(0)
    /\ state.pc = W(4)
    /\ word(Self, Reg(31)) = W(42)

\* the order AccessPosition prescribes for the register accesses of a cycle
PositionRank(position) ==
    CASE position = "C" -> 1
      [] position = "B" -> 2
      [] position = "A" -> 3

RegisterPositions == {"C", "B", "A"}

\* the calls of mr_cpu/mw_cpu made by the step, as indices of the log after it
NewCalls == (Len(hist.log) + 1)..Len(hist'.log)

\* of two register accesses of the step, the one made first has the earlier
\* position
InPositionOrder ==
    \A i \in NewCalls : \A j \in NewCalls :
        (/\ i < j
         /\ hist'.log[i].position \in RegisterPositions
         /\ hist'.log[j].position \in RegisterPositions)
            => PositionRank(hist'.log[i].position) < PositionRank(hist'.log[j].position)

(***************************************************************************)
(* C29.  Within every single instruction the register accesses are made    *)
(* in the order of their positions, C first, then B, then A: no access at  *)
(* a later position is made before an access at an earlier position in the *)
(* same cycle.                                                             *)
(***************************************************************************)
C29_AccessesInPositionOrder == [][InPositionOrder]_vars

\* The same for every instruction but ECALL, and what ECALL does instead:
\* when its handler returns, it writes a0 at position A and then reads t0 at
\* position B.
C29_AccessesInPositionOrderExceptEcall ==
    [][/\ (phase = "running" /\ InRange(Self) /\ fetch(Self).opcode # "ECALL")
             => InPositionOrder
       /\ (Completes({"ECALL"}) /\ ~unconstrained /\ ~unconstrained')
             => /\ Len(hist'.log) >= Len(hist.log) + 2
                /\ hist'.log[Len(hist'.log) - 1].position = "A"
                /\ hist'.log[Len(hist'.log) - 1].addr = X10
                /\ hist'.log[Len(hist'.log)].position = "B"
                /\ hist'.log[Len(hist'.log)].addr = X5]_vars

\* an ECALL has completed in constrained mode
C29_Witness ==
    /\ phase = "running"
    /\ hist.cycle.opcode = "ECALL"
    /\ ~hist.cycle.unconstrained
    /\ ~unconstrained
    /\ Len(hist.log) >= 2
    /\ hist.log[Len(hist.log)].position = "B"
    /\ hist.log[Len(hist.log) - 1].position = "A"
    /\ hist.log[Len(hist.log)].global_clk = hist.log[Len(hist.log) - 1].global_clk

\* the opcode classes of the ALU event vectors
AluClasses ==
    { {"ADD"}, {"SUB"}, {"XOR", "OR", "AND"}, {"SLL"}, {"SRL", "SRA"},
      {"SLT", "SLTU"}, MulOpcodes, DivRemOpcodes }

\* the vector of a record that holds the events of a class
ClassVector(rec, class) ==
    CASE class = {"ADD"} -> rec.add_events
      [] class = {"SUB"} -> rec.sub_events
      [] class = {"XOR", "OR", "AND"} -> rec.bitwise_events
      [] class = {"SLL"} -> rec.shift_left_events
      [] class = {"SRL", "SRA"} -> rec.shift_right_events
      [] class = {"SLT", "SLTU"} -> rec.lt_events
      [] class = MulOpcodes -> rec.mul_events
      [] class = DivRemOpcodes -> rec.divrem_events

OfClass(event, class) == event.instruction.opcode \in class

\* the ALU events the CpuEvents of a class call for, in order
RECURSIVE AluEventsOf(_, _)
AluEventsOf(cpu_events, class) ==
    IF cpu_events = <<>> THEN <<>>
    ELSE LET e == Head(cpu_events)
             rest == AluEventsOf(Tail(cpu_events), class)
         IN  IF OfClass(e, class)
             THEN <<[clk |-> e.clk, opcode |-> e.instruction.opcode,
                     a |-> e.a, b |-> e.b, c |-> e.c]>> \o rest
             ELSE rest

NoAluOpcodes == LoadOpcodes \cup StoreOpcodes \cup BranchOpcodes
                    \cup {"JAL", "JALR", "AUIPC", "ECALL"}

LastOf(seq) == seq[Len(seq)]

(***************************************************************************)
(* C30.  Every ALU instruction that is executed appends exactly one        *)
(* AluEvent, to the vector of its opcode class and to no other, with the   *)
(* clk, a, b and c of the CpuEvent of that instruction; a load, store,     *)
(* branch, jump, AUIPC or ECALL appends no AluEvent.  Hence each vector    *)
(* holds, in order, one event for each CpuEvent of its class.              *)
(***************************************************************************)
C30_OneAluEventPerAluInstruction ==
    /\ [](/\ AluOpcodes = UNION AluClasses
          /\ \A class \in AluClasses :
                ClassVector(record, class) = AluEventsOf(record.cpu_events, class))
    /\ [][/\ Completes(AluOpcodes) =>
                \A class \in AluClasses :
                    IF fetch(Self).opcode \in class
                    THEN /\ ClassVector(record', class) =
                               Append(ClassVector(record, class),
                                      LastOf(ClassVector(record', class)))
                         /\ LastOf(ClassVector(record', class)) =
                               [clk |-> LastOf(record'.cpu_events).clk,
                                opcode |-> fetch(Self).opcode,
                                a |-> LastOf(record'.cpu_events).a,
                                b |-> LastOf(record'.cpu_events).b,
                                c |-> LastOf(record'.cpu_events).c]
                         /\ LastOf(record'.cpu_events).instruction = fetch(Self)
                    ELSE ClassVector(record', class) = ClassVector(record, class)
          /\ (Completes(NoAluOpcodes) /\ unconstrained' = unconstrained) =>
                \A class \in AluClasses :
                    ClassVector(record', class) = ClassVector(record, class)]_vars

\* SUB x0, x11, x5 has been executed after an ADD: its event is in sub_events
\* with the result that x0 did not take, and add_events holds the ADD's alone
C30_Witness ==
    /\ Len(record.cpu_events) = 2
    /\ record.cpu_events[1].instruction.opcode = "ADD"
    /\ record.cpu_events[2].instruction.opcode = "SUB"
    /\ record.cpu_events[2].instruction.op_a = X0
    /\ Len(record.sub_events) = 1
    /\ Len(record.add_events) = 1
    /\ record.sub_events[1].a = record.cpu_events[2].a
    /\ record.sub_events[1].a # W(0)
    /\ record.sub_events[1].clk = record.cpu_events[2].clk

\* b exceeds a at the highest byte where they differ
BelowU(a, b) ==
    \E k \in 1..4 : a[k] < b[k] /\ \A j \in (k + 1)..4 : a[j] = b[j]

\* the word with its sign bit flipped: i32 order becomes u32 order
Biased(w) == [w EXCEPT ![4] = (@ + 128) % 256]

BranchCondition(opcode, a, b) ==
    CASE opcode = "BEQ" -> a = b
      [] opcode = "BNE" -> a # b
      [] opcode = "BLT" -> BelowU(Biased(a), Biased(b))
      [] opcode = "BGE" -> ~BelowU(Biased(a), Biased(b))
      [] opcode = "BLTU" -> BelowU(a, b)
      [] opcode = "BGEU" -> ~BelowU(a, b)

AllAddresses == DOMAIN state.memory \cup DOMAIN state'.memory

(***************************************************************************)
(* C31.  A branch that completes reads register op_b at position B and     *)
(* then register op_a at position A, and makes no other access; with a and *)
(* b the values read, it sets pc to pc + imm (mod 2^32) when the condition *)
(* of its opcode holds (signed for BLT/BGE, unsigned for BLTU/BGEU) and to *)
(* pc + 4 otherwise.  No register or memory word changes its value, and    *)
(* no entry other than those of the two registers changes at all.          *)
(***************************************************************************)
C31_BranchContract ==
    [][Completes(BranchOpcodes) =>
         LET i == fetch(Self)
             a == word(Self, i.op_a)
             b == word(Self, i.op_b)
         IN  /\ Len(hist'.log) = Len(hist.log) + 2
             /\ hist'.log[Len(hist.log) + 1].position = "B"
             /\ hist'.log[Len(hist.log) + 1].addr = i.op_b
             /\ hist'.log[Len(hist.log) + 2].position = "A"
             /\ hist'.log[Len(hist.log) + 2].addr = i.op_a
             /\ state'.pc = IF BranchCondition(i.opcode, a, b)
                            THEN wrapping_add(state.pc, i.op_c)
                            ELSE wrapping_add(state.pc, W(4))
             /\ LastOf(record'.cpu_events).a = a
             /\ LastOf(record'.cpu_events).b = b
             /\ \A addr \in AllAddresses :
                   /\ word(SelfAfter, addr) = word(Self, addr)
                   /\ addr \notin {i.op_a, i.op_b} =>
                         /\ addr \in DOMAIN state.memory
                         /\ addr \in DOMAIN state'.memory
                         /\ state'.memory[addr] = state.memory[addr]]_vars

\* BLT on a = 0xFFFFFFFF (-1) and b = 1 has been taken, where BLTU is not
C31_Witness ==
    /\ phase = "running"
    /\ record.cpu_events # <<>>
    /\ LastOf(record.cpu_events).instruction.opcode = "BLT"
    /\ LastOf(record.cpu_events).a = U32Max
    /\ LastOf(record.cpu_events).b = W(1)
    /\ state.pc = wrapping_add(LastOf(record.cpu_events).pc, MinusEight)
    /\ ~BranchCondition("BLTU", U32Max, W(1))

\* the (shard, timestamp) of an address in a memory map, (0, 0) when it has no entry
StampIn(memory, addr) ==
    IF addr \in DOMAIN memory THEN <<memory[addr][2], memory[addr][3]>> ELSE <<0, 0>>

(***************************************************************************)
(* C32.  A store that completes makes exactly one timestamped access to    *)
(* its target word, a write at position Memory: the record of that write   *)
(* has as prev_value the word before the store and as previous stamp the   *)
(* stamp the word had before the store (the preliminary read left it as it *)
(* was and is not in the log of accesses), and as value the spliced word,  *)
(* which is the word in memory after the store and the memory_store_value  *)
(* of the CpuEvent.  In constrained mode that record is the memory_record  *)
(* of the CpuEvent.                                                        *)
(***************************************************************************)
C32_StoreAccessesWordOnce ==
    [][Completes(StoreOpcodes) =>
         LET addr == wrapping_add(word(Self, fetch(Self).op_b), fetch(Self).op_c)
             base == wrapping_sub(addr, W(addr[1] % 4))
             calls == {j \in NewCalls : hist'.log[j].addr = base}
             e == LastOf(record'.cpu_events)
         IN  /\ Cardinality(calls) = 1
             /\ Cardinality(NewCalls) = 3
             /\ \A j \in calls :
                   LET rec == hist'.log[j].rec
                   IN  /\ hist'.log[j].position = "Memory"
                       /\ rec.kind = "write"
                       /\ rec.prev_value = word(Self, base)
                       /\ <<rec.prev_shard, rec.prev_timestamp>> = StampIn(state.memory, base)
                       /\ rec.value = word(SelfAfter, base)
                       /\ <<rec.shard, rec.timestamp>> = StampIn(state'.memory, base)
                       /\ e.memory = Some(rec.value)
                       /\ ~unconstrained => e.memory_record = Some(rec)]_vars

\* SB at offset 1 has overwritten one byte of a word written by an earlier SW:
\* the event's record has the old word as prev_value and the SW's stamp
C32_Witness ==
    /\ phase = "running"
    /\ record.cpu_events # <<>>
    /\ LastOf(record.cpu_events).instruction.opcode = "SB"
    /\ LastOf(record.cpu_events).memory_record # None
    /\ LastOf(record.cpu_events).memory_record[1].kind = "write"
    /\ LastOf(record.cpu_events).memory_record[1].prev_timestamp > 0
    /\ LastOf(record.cpu_events).memory_record[1].prev_value
          # LastOf(record.cpu_events).memory_record[1].value
    /\ LastOf(record.cpu_events).memory = Some(LastOf(record.cpu_events).memory_record[1].value)

\* the entries of a table for an address
EntriesOf(table, addr) == {i \in 1..Len(table) : table[i][1] = addr}

\* the multiplicity program_memory_record gives an address (0 without entry)
RECURSIVE SumOfMultiplicity(_, _)
SumOfMultiplicity(table, entries) ==
    IF entries = {} THEN 0
    ELSE LET i == CHOOSE j \in entries : TRUE
         IN  table[i][3] + SumOfMultiplicity(table, entries \ {i})

Multiplicity(table, addr) == SumOfMultiplicity(table, EntriesOf(table, addr))

(***************************************************************************)
(* C33.  After a complete run the three tables of postprocess balance per  *)
(* address: the number of entries an address has in first_memory_record    *)
(* plus its multiplicity in program_memory_record equals the number of     *)
(* entries it has in last_memory_record, and that number is 0 or 1.        *)
(***************************************************************************)
C33_TablesBalance ==
    phase = "done" =>
        \A addr \in DOMAIN state.memory \cup DOMAIN program.memory_image
                        \cup AddressesOf(record.first_memory_record)
                        \cup AddressesOf(record.last_memory_record)
                        \cup AddressesOf(record.program_memory_record) :
            /\ Cardinality(EntriesOf(record.first_memory_record, addr))
                   + Multiplicity(record.program_memory_record, addr)
                 = Cardinality(EntriesOf(record.last_memory_record, addr))
            /\ Cardinality(EntriesOf(record.last_memory_record, addr)) \in {0, 1}
            /\ Cardinality(EntriesOf(record.program_memory_record, addr)) \in {0, 1}

\* a finished run with the three cases: an accessed address outside the image
\* (first and last), an accessed image address (program with multiplicity 1
\* and last), an image address never accessed (program with multiplicity 0)
C33_Witness ==
    /\ phase = "done"
    /\ \E addr \in AddressesOf(record.first_memory_record) :
          addr \in AddressesOf(record.last_memory_record)
    /\ \E addr \in DOMAIN program.memory_image :
          /\ Multiplicity(record.program_memory_record, addr) = 1
          /\ addr \in AddressesOf(record.last_memory_record)
          /\ addr \notin AddressesOf(record.first_memory_record)
    /\ \E addr \in DOMAIN program.memory_image :
          /\ EntriesOf(record.program_memory_record, addr) # {}
          /\ Multiplicity(record.program_memory_record, addr) = 0
          /\ addr \notin AddressesOf(record.last_memory_record)

\* every entry of the memory map is stamped (0, 0) exactly when its address
\* is an image address that no access made in the regions has touched
ZeroStampedAreUntouched(regions) ==
    \A addr \in DOMAIN state.memory :
        (StampIn(state.memory, addr) = <<0, 0>>)
            <=> (addr \in DOMAIN program.memory_image /\ addr \notin Accessed(regions))

\* postprocess marks as unused (multiplicity 0) no address the regions accessed
UnusedAreUntouched(regions) ==
    phase = "done" =>
        \A i \in 1..Len(record.program_memory_record) :
            record.program_memory_record[i][3] = 0
                => record.program_memory_record[i][1] \notin Accessed(regions)

NoAccessStampedZero == \A i \in 1..Len(Log) : Stamp(Log[i].rec) # <<0, 0>>

ShardIsFull == max_syscall_cycles + state.clk >= shard_size * 4

(***************************************************************************)
(* C35.  A step that leaves the runtime in unconstrained mode (the mode    *)
(* the shard test at the end of the cycle sees) keeps current_shard and    *)
(* does not bring clk back (clk does not decrease and is not 0), whatever  *)
(* clk + max_syscall_cycles is; in every step current_shard does not       *)
(* decrease, and when it changes it grows by exactly 1, clk becomes 0 and  *)
(* the runtime is not unconstrained.  (The cycle of the ECALL that leaves  *)
(* a region ends in constrained mode and is tested as such.)               *)
(***************************************************************************)
C35_ShardAdvance ==
    [][ /\ unconstrained' =>
              /\ state'.current_shard = state.current_shard
              /\ state'.clk >= state.clk
              /\ state'.clk # 0
        /\ state'.current_shard >= state.current_shard
        /\ state'.current_shard # state.current_shard =>
              /\ state'.current_shard = state.current_shard + 1
              /\ state'.clk = 0
              /\ ~unconstrained'
      ]_vars

\* an unconstrained cycle has ended with the shard full on the clock alone,
\* in a run whose shard had advanced before
C35_Witness ==
    /\ phase = "running"
    /\ unconstrained
    /\ hist.cycle.unconstrained
    /\ ShardIsFull
    /\ state.current_shard >= 2

\* the quotient and the remainder the interpreter gives for the operands of
\* the event e of a DIV, DIVU, REM or REMU: the one the event computed is its
\* field a, the other is what the arm of the partner opcode computes
QuotientOf(e) ==
    LET opcode == e.instruction.opcode
    IN  IF opcode \in {"DIV", "DIVU"} THEN e.a
        ELSE DivRemResult(IF opcode = "REM" THEN "DIV" ELSE "DIVU", e.b, e.c)

RemainderOf(e) ==
    LET opcode == e.instruction.opcode
    IN  IF opcode \in {"REM", "REMU"} THEN e.a
        ELSE DivRemResult(IF opcode = "DIV" THEN "REM" ELSE "REMU", e.b, e.c)

(***************************************************************************)
(* C36.  For the operands b and c of every executed DIV, DIVU, REM and     *)
(* REMU (c = 0 and i32::MIN, -1 included): quotient * c + remainder = b    *)
(* modulo 2^32, for the signed pair DIV, REM and for the unsigned pair     *)
(* DIVU, REMU.                                                             *)
(***************************************************************************)
C36_QuotientRemainderConsistent ==
    \A i \in 1..Len(record.cpu_events) :
        LET e == record.cpu_events[i]
        IN  e.instruction.opcode \in DivRemOpcodes =>
                wrapping_add(MulWide(QuotientOf(e), e.c).low, RemainderOf(e)) = e.b

\* the run has executed DIV on i32::MIN and -1, which gave i32::MIN
C36_Witness ==
    /\ Len(record.cpu_events) = 3
    /\ LET e == record.cpu_events[3]
       IN  /\ e.instruction.opcode = "DIV"
           /\ e.b = I32Min
           /\ e.c = U32Max
           /\ e.a = I32Min

AccessPositions == {"Memory", "C", "B", "A"}

\* the slots of the event that hold a record
FilledSlots(event) == {position \in AccessPositions : SlotOf(event, position) # None}

(***************************************************************************)
(* C37.  The accesses made in one step (one cycle of any opcode, to its    *)
(* end or to a panic) use pairwise distinct positions among Memory, C, B   *)
(* and A; and the CpuEvent emitted by a cycle that ends in constrained     *)
(* mode holds, in the slot of each position used, the record of the access *)
(* made at that position in the cycle, and nothing in the other slots.     *)
(***************************************************************************)
C37_PositionsUsedOnce ==
    [][/\ \A i \in NewCalls :
              /\ hist'.log[i].position \in AccessPositions
              /\ \A j \in NewCalls :
                     i # j => hist'.log[i].position # hist'.log[j].position
       /\ (CycleCompletes /\ ~unconstrained') =>
              /\ Len(record'.cpu_events) > 0
              /\ \A i \in NewCalls :
                     SlotOf(record'.cpu_events[Len(record'.cpu_events)],
                            hist'.log[i].position) = Some(hist'.log[i].rec)
              /\ FilledSlots(record'.cpu_events[Len(record'.cpu_events)])
                     = {hist'.log[i].position : i \in NewCalls}]_vars

\* a load has completed with accesses at three positions: B (the base
\* register), Memory (the word) and A (the destination register)
C37_Witness ==
    /\ phase = "running"
    /\ Len(record.cpu_events) > 0
    /\ LastCpuEvent.instruction.opcode \in LoadOpcodes
    /\ FilledSlots(LastCpuEvent) = {"B", "Memory", "A"}

\* fetch() is about to be called: the loop condition of run() holds
FetchIsCalled == phase = "running" /\ InRange(Self)

\* the addresses pc_base .. pc_base + 4 * len - 1 of the instructions do not
\* go past 2^32 - 1
RangeBelowTop ==
    LET end == wrapping_add(program.pc_base, W(4 * Len(program.instructions)))
    IN  end = W(0) \/ ~LtU(end, program.pc_base)

(***************************************************************************)
(* C38.  Whenever fetch() is called, pc >= pc_base and the index           *)
(* (pc - pc_base) / 4 is smaller than the number of instructions.          *)
(***************************************************************************)
C38_FetchInBounds ==
    FetchIsCalled =>
        /\ ~LtU(state.pc, program.pc_base)
        /\ PcIndex(Self) < Len(program.instructions)

\* What holds instead: the index computed modulo 2^32 is always in bounds,
\* and pc >= pc_base whenever the instructions do not reach past 2^32 - 1.
C38_FetchInBoundsBelowTop ==
    FetchIsCalled =>
        /\ PcIndex(Self) < Len(program.instructions)
        /\ RangeBelowTop => ~LtU(state.pc, program.pc_base)

\* fetch() is called with a pc that an instruction has set and that is not
\* a multiple of 4
C38_Witness ==
    /\ FetchIsCalled
    /\ state.global_clk > 0
    /\ state.pc[1] % 4 # 0

\* the opcodes whose op_a names a destination register
DestinationOpcodes == AluOpcodes \cup LoadOpcodes \cup {"JAL", "JALR", "AUIPC"}

\* the result the instruction of the event e, fetched at pc, computes for its
\* destination, from the operands and the memory record the event reports
ResultOf(e, pc) ==
    LET opcode == e.instruction.opcode
    IN  CASE opcode \in AluOpcodes -> AluResult(opcode, e.b, e.c)
          [] opcode \in LoadOpcodes ->
                 LoadValue(opcode, wrapping_add(e.b, e.c), e.memory_record[1].value)
          [] opcode \in {"JAL", "JALR"} -> wrapping_add(pc, W(4))
          [] opcode = "AUIPC" -> wrapping_add(pc, e.instruction.op_b)

\* the accesses of this step to address 0
NewCallsOfX0 == {i \in NewCalls : hist'.log[i].addr = X0}

(***************************************************************************)
(* C39.  A constrained cycle that completes an instruction with            *)
(* destination X0 emits a CpuEvent with no a_record whose field a is the   *)
(* computed result (not the 0 that X0 holds); the cycle makes no access    *)
(* at position A, and the entry of address 0 is left as it was, or as the  *)
(* last read of X0 in the cycle stamped it.                                *)
(***************************************************************************)
C39_WriteToX0Dropped ==
    [][(/\ Completes(DestinationOpcodes)
        /\ fetch(Self).op_a = X0
        /\ ~unconstrained) =>
           /\ Len(record'.cpu_events) = Len(record.cpu_events) + 1
           /\ LET e == record'.cpu_events[Len(record'.cpu_events)]
              IN  /\ e.a_record = None
                  /\ e.a = ResultOf(e, state.pc)
           /\ \A i \in NewCalls : hist'.log[i].position # "A"
           /\ \A i \in NewCallsOfX0 : hist'.log[i].rec.kind = "read"
           /\ IF NewCallsOfX0 = {}
              THEN /\ (X0 \in DOMAIN state'.memory) = (X0 \in DOMAIN state.memory)
                   /\ StampIn(state'.memory, X0) = StampIn(state.memory, X0)
              ELSE LET last == CHOOSE i \in NewCallsOfX0 :
                                   \A j \in NewCallsOfX0 : j <= i
                   IN  StampIn(state'.memory, X0) = Stamp(hist'.log[last].rec)]_vars

\* the last cycle executed in constrained mode an ALU instruction or a load
\* with destination X0 that read a register other than X0, and computed a
\* result that is not 0: the event has it, and the stamp of X0 is older than
\* the cycle
C39_Witness ==
    /\ phase = "running"
    /\ ~unconstrained
    /\ Len(record.cpu_events) > 0
    /\ LastCpuEvent.instruction.opcode \in AluOpcodes \cup LoadOpcodes
    /\ LastCpuEvent.instruction.op_a = X0
    /\ LastCpuEvent.a # W(0)
    /\ LastCpuEvent.a_record = None
    /\ LastCpuEvent.b_record # None
    /\ LexLess(StampIn(state.memory, X0), <<LastCpuEvent.shard, LastCpuEvent.clk>>)

(***************************************************************************)
(* The shift operation on its own: rows populated on a fresh record.       *)
(***************************************************************************)
\* the words given to populate
ShiftInputs ==
    {W(0), W(1), U32Max, I32Min, Word12348765, Word38276525,
     <<128, 1, 255, 127>>, <<0, 0, 1, 0>>, <<255, 0, 255, 0>>,
     <<85, 170, 85, 170>>, <<1, 2, 4, 8>>, <<254, 255, 255, 255>>}

ShiftRotations == 0..31

InitShift ==
    /\ program \in {p \in AddPrograms : p.pc_start = W(0)}
    /\ state = ExecutionStateNew(program.pc_start, 0)
    /\ record = ExecutionRecordDefault
    /\ cpu_record = CpuRecordDefault
    /\ shard_size = 4
    /\ hist = [HistInit EXCEPT !.env_shard_size = 1]
    /\ unconstrained = FALSE
    /\ unconstrained_state = ForkStateDefault
    /\ phase = "new"
    /\ operation = FixedShiftRightOperationDefault

\* one call of operation.populate(&mut record, input, rotation)
PopulateRow ==
    /\ phase = "new"
    /\ hist.populate.calls < MaxPopulates
    /\ \E input \in ShiftInputs : \E rotation \in ShiftRotations :
          \E r \in {populate(operation, record, input, rotation)} :
              /\ operation' = r.self
              /\ record' = r.record
              /\ hist' = [hist EXCEPT !.populate =
                             [calls |-> @.calls + 1, input |-> input,
                              rotation |-> rotation, returned |-> r.returned]]
              /\ phase' = IF r.panicked THEN "panicked" ELSE phase
    /\ UNCHANGED <<program, state, cpu_record, shard_size, unconstrained,
                   unconstrained_state>>

NextShift == PopulateRow

SpecShift == InitShift /\ [][NextShift]_vars

\* the row the last call of populate worked on
Populated == hist.populate.calls > 0

\* the input after the shift by whole bytes: byte i is byte i + rotation / 8
\* of the input, or 0 past the top (i from 0)
RotatedByte(i) ==
    LET k == i + hist.populate.rotation \div 8
    IN  IF k <= 3 THEN hist.populate.input[k + 1] ELSE 0

BitsShifted == hist.populate.rotation % 8

(***************************************************************************)
(* C40.  For every 32-bit input and every rotation in 0..31, populate      *)
(* returns input >> rotation and leaves that word in the value columns,    *)
(* its assertion does not fail, and the columns decompose the shift: with  *)
(* the input's bytes moved down by rotation / 8, shift[i] and carry[i] are *)
(* the high and the low rotation % 8 bits of byte i, every value byte      *)
(* below the top is shift[i] + carry[i+1] * 2^(8 - rotation % 8), and the  *)
(* top one is shift[3] (also when rotation % 8 = 0).                       *)
(***************************************************************************)
C40_FixedShiftRight ==
    Populated =>
        /\ phase # "panicked"
        /\ IsShifted("SRL", hist.populate.returned, hist.populate.input,
                     hist.populate.rotation)
        /\ operation.value = hist.populate.returned
        /\ \A i \in 0..3 :
              /\ operation.carry[i + 1] < 2 ^ BitsShifted
              /\ operation.shift[i + 1] * (2 ^ BitsShifted) + operation.carry[i + 1]
                     = RotatedByte(i)
        /\ \A i \in 0..2 :
              operation.value[i + 1] =
                  operation.shift[i + 1]
                      + operation.carry[i + 2] * (2 ^ (8 - BitsShifted))
        /\ operation.value[4] = operation.shift[4]

\* populate has shifted a word by a number of bits that moves whole bytes
\* and bits, with bits carried from one byte into the next
C40_Witness ==
    /\ Populated
    /\ hist.populate.rotation \div 8 > 0
    /\ BitsShifted > 0
    /\ \E i \in 1..3 : operation.carry[i + 1] > 0
    /\ operation.value # <<0, 0, 0, 0>>

====
